---- MODULE Spec2Model ----
(***************************************************************************)
(* Three programs of the repository, each with its own specification:      *)
(*  - Spec, FairSpec: the hashing UDP server of udp_server.go: the         *)
(*    Receiver (recvPacket), the Dispatcher (hashPacket), the backend      *)
(*    exchanges it spawns (commBackend), the Transmitter (reflectPacket)   *)
(*    and main; the Hashing Service and the client are its environment.    *)
(*  - HashSpec: the Hashing Service of http_backend.go: the handlers of    *)
(*    /hash and /shutdown, the accumulator the hash handlers share, and    *)
(*    main, which shuts the service down.                                  *)
(*  - ClientSpec, ClientFairSpec, QuietFairSpec: the client of             *)
(*    udp_client.go: sendMessages, receiveMessages, countWritten,          *)
(*    countWrittenRecv and main; the network and the server are its        *)
(*    environment.                                                         *)
(* In each specification the variables of the other programs do not move.  *)
(***************************************************************************)
EXTENDS Naturals, Integers, Sequences, FiniteSets, TLC

(* ---- bounds ---- *)
MaxRecv == 2
MaxJobs == 2
ChanCap == 1
MaxReqs == 2
MaxSend == 2
MaxArrive == 3
ClChanCap == 1
MaxChRecv == 4
MaxEcho == 3

(* ---- program constants ---- *)
BufSize == 100
HashLen == 8
DoneChanCap == 1
MessgSize == 100
ReplySize == 108

NilAddr == "nil"

(* the sequence ids the client sends within the bound *)
Ids == 0..(MaxSend - 1)

Min(a, b) == IF a < b THEN a ELSE b

Zeros(n) == [i \in 1..n |-> 0]

(* binary.LittleEndian.PutUint32 into the first four bytes of a message *)
PutUint32LE(v) ==
    << v % 256, (v \div 256) % 256, (v \div 65536) % 256, (v \div 16777216) % 256 >>

(* the client's message: make([]byte, 100) with the id in bytes 0..3 *)
ClientMessage(id) == PutUint32LE(id) \o Zeros(MessgSize - 4)

(* datagrams the network may deliver: two senders, two lengths *)
Datagrams ==
    { [payload |-> PutUint32LE(258), addr |-> "10.0.0.1:5000"],
      [payload |-> <<7, 9>>,           addr |-> "10.0.0.2:5000"] }

(* 8-byte values the Hashing Service may answer with *)
HashValues ==
    { <<1, 2, 3, 4, 5, 6, 7, 8>>, <<255, 0, 254, 16, 128, 64, 32, 250>> }

(* ---- encoding/json of a []byte: a quoted base64 string ---- *)
Quote == 65
Pad64 == 64
Newline == 66

RECURSIVE B64Encode(_)
B64Encode(b) ==
    IF Len(b) = 0 THEN <<>>
    ELSE IF Len(b) = 1 THEN
        << b[1] \div 4, (b[1] % 4) * 16, Pad64, Pad64 >>
    ELSE IF Len(b) = 2 THEN
        << b[1] \div 4, (b[1] % 4) * 16 + (b[2] \div 16), (b[2] % 16) * 4, Pad64 >>
    ELSE
        << b[1] \div 4, (b[1] % 4) * 16 + (b[2] \div 16),
           (b[2] % 16) * 4 + (b[3] \div 64), b[3] % 64 >>
        \o B64Encode(SubSeq(b, 4, Len(b)))

(* decodes one or more groups of four characters; the caller has checked shape *)
RECURSIVE B64Decode(_)
B64Decode(c) ==
    IF Len(c) = 0 THEN <<>>
    ELSE IF c[3] = Pad64 THEN
        << c[1] * 4 + (c[2] \div 16) >>
    ELSE IF c[4] = Pad64 THEN
        << c[1] * 4 + (c[2] \div 16), (c[2] % 16) * 16 + (c[3] \div 4) >>
    ELSE
        << c[1] * 4 + (c[2] \div 16), (c[2] % 16) * 16 + (c[3] \div 4),
           (c[3] % 4) * 64 + c[4] >>
        \o B64Decode(SubSeq(c, 5, Len(c)))

(* padding may only be the last one or two characters *)
B64WellFormed(c) ==
    /\ Len(c) % 4 = 0
    /\ \A i \in 1..Len(c) : c[i] \in 0..64
    /\ \A i \in 1..Len(c) : c[i] = Pad64 =>
          /\ i >= Len(c) - 1
          /\ (i = Len(c) - 1 => c[Len(c)] = Pad64)

(* json.Marshal(packet.Packet) / json.NewEncoder(w).Encode(buffer) *)
JSONMarshal(b) == <<Quote>> \o B64Encode(b) \o <<Quote>>
JSONEncode(b) == JSONMarshal(b) \o <<Newline>>

StripNewline(t) ==
    IF Len(t) > 0 /\ t[Len(t)] = Newline THEN SubSeq(t, 1, Len(t) - 1) ELSE t

(* the decoding error dropped: a body that is no JSON string yields no bytes *)
JSONUnmarshalErrIgnored(body) ==
    LET t == StripNewline(body)
        inner == SubSeq(t, 2, Len(t) - 1)
    IN  IF Len(t) >= 2 /\ t[1] = Quote /\ t[Len(t)] = Quote /\ B64WellFormed(inner)
        THEN [err |-> FALSE, val |-> B64Decode(inner)]
        ELSE [err |-> FALSE, val |-> <<>>]

(* json.Unmarshal(body, &buffer) for a []byte target *)
JSONUnmarshal(body) ==
    LET t == StripNewline(body)
        inner == SubSeq(t, 2, Len(t) - 1)
    IN  IF Len(t) >= 2 /\ t[1] = Quote /\ t[Len(t)] = Quote /\ B64WellFormed(inner)
        THEN [err |-> FALSE, val |-> B64Decode(inner)]
        ELSE [err |-> TRUE, val |-> <<>>]

(* the body of http.Error(w, "404 not found.", ...): not a JSON string *)
NotFoundBody == <<80, 81, 82, Newline>>

(* ---- hash/fnv: FNV-1a, 64 bits ---- *)
(* a uint64 is written as its eight bytes, least significant first; every    *)
(* operation drops what does not fit in eight bytes (arithmetic modulo 2^64) *)
WordBytes == 8

(* fnv offset64 = 14695981039346656037 = 0xcbf29ce484222325 *)
OffsetBasis64 == << 37, 35, 34, 132, 228, 156, 242, 203 >>

(* fnv prime64 = 1099511628211 = 0x00000100000001b3 *)
Prime64 == << 179, 1, 0, 0, 0, 1, 0, 0 >>

(* exclusive or of the low n bits of a and b *)
RECURSIVE XorBits(_, _, _)
XorBits(a, b, n) ==
    IF n = 0 THEN 0
    ELSE (((a % 2) + (b % 2)) % 2) + 2 * XorBits(a \div 2, b \div 2, n - 1)

(* hash ^= sum64a(c): c is one byte, so only the low byte changes *)
XorLow(h, c) == << XorBits(h[1], c, 8) >> \o Tail(h)

(* the sum of a[i] * b[k + 1 - i] for i in 1..n: column k of the product *)
RECURSIVE Column(_, _, _, _)
Column(a, b, k, n) ==
    IF n = 0 THEN 0 ELSE a[n] * b[k + 1 - n] + Column(a, b, k, n - 1)

RECURSIVE MulFrom(_, _, _, _)
MulFrom(a, b, k, carry) ==
    IF k > WordBytes THEN <<>>
    ELSE LET t == Column(a, b, k, k) + carry
         IN  << t % 256 >> \o MulFrom(a, b, k + 1, t \div 256)

(* a * b on uint64: the low eight bytes of the product *)
Mul64(a, b) == MulFrom(a, b, 1, 0)

(* the multiplication left out of the loop body *)
FnvStepNoMul(h, c) == XorLow(h, c)

(* the loop body of sum64a.Write: hash ^= sum64a(c) ; hash *= prime64 *)
FnvStep(h, c) == Mul64(XorLow(h, c), Prime64)

(* for _, c := range data { ... } starting from the value hash: the bytes   *)
(* in order, the first half of data and then the second half                *)
RECURSIVE FnvLoop(_, _)
FnvLoop(hash, data) ==
    IF Len(data) = 0 THEN hash
    ELSE IF Len(data) = 1 THEN FnvStep(hash, data[1])
    ELSE LET half == Len(data) \div 2
             mid == FnvLoop(hash, SubSeq(data, 1, half))
         IN  \* the test makes TLC compute mid before it goes on
             IF Len(mid) = WordBytes
             THEN FnvLoop(mid, SubSeq(data, half + 1, Len(data)))
             ELSE mid

(* FNV-1a of a byte sequence: the offset basis, then the loop over its bytes *)
FNV1a64(p) == FnvLoop(OffsetBasis64, p)

(* binary.BigEndian.PutUint64(buffer, v): most significant byte first *)
PutUint64BE(v) == << v[8], v[7], v[6], v[5], v[4], v[3], v[2], v[1] >>

(* binary.LittleEndian.Uint32(b): the first four bytes of b *)
Uint32LE(b) == b[1] + 256 * b[2] + 65536 * b[3] + 16777216 * b[4]

(* ---- packets ---- *)
(* PacketStruct; seq, gPayload, gAddr and gHash are history fields: the     *)
(* ordinal of the datagram, what was read, and the hash the service sent.   *)
NewPacketStruct ==
    [Packet |-> <<>>, Addr |-> NilAddr, seq |-> 0,
     gPayload |-> <<>>, gAddr |-> NilAddr, gHash |-> <<>>]

(* no packet variable in scope (before the first pool.Get, after a spawn) *)
NoPacket == [NewPacketStruct EXCEPT !.seq = -1]

(* UDPAddr.String(): "<nil>" for the nil address *)
AddrString(a) == IF a = NilAddr THEN "<nil>" ELSE a

(* the address check left out *)
IsRealAlways(p) == TRUE

(* the guard of hashPacket: packet.Addr.String() != "<nil>" *)
IsReal(p) == AddrString(p.Addr) # "<nil>"

(* ReadFromUDP(buffer): at most len(buffer) bytes, and the sender's address *)
ReadFromUDP(d, s) ==
    LET b == SubSeq(d.payload, 1, Min(Len(d.payload), BufSize))
    IN  [Packet |-> b, Addr |-> d.addr, seq |-> s,
         gPayload |-> d.payload, gAddr |-> d.addr, gHash |-> <<>>]

(* the hash assigned in place of the payload instead of appended to it *)
AppendHashOverwrite(payload, buffer) == buffer

(* append(packet.Packet[:], buffer[:]...) *)
AppendHash(payload, buffer) == payload \o buffer

VARIABLES
    proc,                 \* "running", "panicking" (a goroutine is unwinding),
                          \* "fatal" (log.Fatal) or "panic" (ended by a panic)
    numConcurrentJobs,    \* the n_jobs flag
    recvPc, hashPc, reflPc, mainPc,
    packetsRecvCounter, packetsSentCounter,
    pool,                 \* sync.Pool: the packets stored in it
    doneChan,             \* number of signals buffered in doneChan
    tokens,               \* number of tokens buffered in the tokens channel
    wgBackend,            \* counter of the backend wait group
    exch,                 \* the commBackend goroutines that have not returned
    held,                 \* hashPacket's local variable packet (NoPacket: out of scope)
    writeChan, writeClosed,
    shutdownReqs,         \* history: shutdown requests issued
    heldAtSignal,         \* history: seq hashPacket held when the done signal was sent
                          \* (0: none, at its select; -1: none yet, about to call pool.Get)
    pulled,               \* history: seqs hashPacket has taken from the pool
    pulledPost,           \* history: seqs taken from the pool after the done signal
    submitted,            \* history: seqs for which an exchange was spawned
    admittedPost,         \* history: seqs whose exchange was spawned after the done signal
    dupSubmit,            \* history: an exchange was spawned twice for one seq
    failed,               \* history: seqs whose exchange got no hash from the service
    queued,               \* history: seqs sent on writeOut
    attempted,            \* history: seqs reflectPacket took and tried to write
    dupAttempt,           \* history: reflectPacket took one seq twice
    writeErrs,            \* history: number of WriteToUDP calls that returned an error
    doneSignals,          \* history: number of sends on doneChan
    readErrs,             \* history: reads that failed with an error other than a timeout
    staged,               \* history: number of pool.Put calls of recvPacket
    shutdownErrs          \* history: shutdown requests for which client.Do returned an error

(* the Hashing Service of http_backend.go *)
VARIABLES
    fnvHash,              \* the process-wide hash.Hash64: its uint64 state
    handlers,             \* the hashHandler goroutines that have not returned
    hsAccepted,           \* number of hash requests accepted so far
    responses,            \* history: the hash responses written, each with its request
    hsMainPc,             \* main: "select" (waits for ctx.Done()), "log" or "exited"
    hsCtxDone,            \* cancel() has been called on ctx
    hsListening,          \* the listener is open
    replies,              \* history: the other responses delivered (404, acknowledgement)
    cancelledBy,          \* history: ids of the requests whose handler called cancel()
    shutdownCalls         \* history: number of calls of serv.Shutdown

(* the client of udp_client.go *)
VARIABLES
    clProc,               \* "running" or "fatal" (log.Fatal)
    deadline,             \* the connection deadline has passed
    sendPc, messgCounter, clSentCounter,
    rcvPc, rcvBuf,        \* receiveMessages and the datagram it has read
    arrived, nArrived,    \* history: replies delivered per id, datagrams delivered
    clWriteChan, clWriteClosed,
    readChan, readClosed,
    cwPc, cwId,           \* countWritten and its local packetContent
    crPc, crId,           \* countWrittenRecv and its local intPacket
    set,                  \* the keys of the map (every value stored is true)
    setMutex,             \* sync.RWMutex: its writer and its readers
    clRecvCounter,        \* packetsRecvCounter: replies matched
    clNotSentCounter,     \* packetsRecvButNotSentCounter: replies not matched
    clMainPc,
    faithful,             \* the network and the server deliver each reply once
    handed,               \* history: the ids sent on writeOut, in order
    matchCount,           \* history: per id, replies counted as matched
    missCount,            \* history: per id, replies counted as not matched
    earlyIds              \* history: ids looked up before they were inserted

(* the hashing server with a staging channel (the earlier variant of        *)
(* udp_server.go: recvPacket sends to recvIn, hashPacket calls the backend  *)
(* itself)                                                                  *)
VARIABLES
    chProc,               \* "running" or "fatal" (log.Fatal)
    chRecvPc,             \* recvPacket: "loop", "send" or "done"
    chBuffer,             \* recvPacket: the packet read, to be sent on recvIn
    recvIn, recvInClosed, \* readChan of main
    chHashPc,             \* hashPacket: "select", "call", "send", "close", "shutdown", "done"
    chPacket,             \* hashPacket: the packet taken from recvIn
    chWriteOut, chWriteClosed,    \* writeChan of main
    chReflPc,             \* reflectPacket: "select" or "done"
    chRecvCounter, chSentCounter, \* packetsRecvCounter, packetsSentCounter
    chMainPc,             \* main: "wait" or "done"
    chReads               \* history: datagrams read from the socket

(* the echo server with a goroutine for each packet (handleUDPConnection)   *)
VARIABLES
    evProc,               \* "running" or "fatal" (log.Fatal)
    evPc,                 \* handleUDPConnection: "loop", "wait" or "done"
    evRecvCounter,        \* packetsRecvCounter
    evSentCounter,        \* packetsSentCounter, shared by the reflectPacket goroutines
    evFlows,              \* the reflectPacket goroutines that have not returned
    evWg,                 \* counter of the wait group
    evWrites,             \* history: WriteToUDP calls that returned no error
    evReported            \* what main logged as packets sent (-1: nothing yet)

chVars == << chProc, chRecvPc, chBuffer, recvIn, recvInClosed, chHashPc, chPacket,
             chWriteOut, chWriteClosed, chReflPc, chRecvCounter, chSentCounter,
             chMainPc, chReads >>

evVars == << evProc, evPc, evRecvCounter, evSentCounter, evFlows, evWg, evWrites,
             evReported >>

srvVars == << proc, numConcurrentJobs, recvPc, hashPc, reflPc, mainPc,
              packetsRecvCounter, packetsSentCounter, pool, doneChan, tokens,
              wgBackend, exch, held, writeChan, writeClosed,
              shutdownReqs, heldAtSignal, pulled, pulledPost, submitted,
              admittedPost, dupSubmit, failed, queued, attempted, dupAttempt,
              writeErrs, doneSignals, readErrs, shutdownErrs, staged >>

hsVars == << fnvHash, handlers, hsAccepted, responses,
            hsMainPc, hsCtxDone, hsListening, replies, cancelledBy,
            shutdownCalls >>

clVars == << clProc, deadline, sendPc, messgCounter, clSentCounter, rcvPc, rcvBuf,
             arrived, nArrived, clWriteChan, clWriteClosed, readChan, readClosed,
             cwPc, cwId, crPc, crId, set, setMutex, clRecvCounter,
             clNotSentCounter, clMainPc, faithful, matchCount, missCount,
             earlyIds, handed >>

vars == << srvVars, hsVars, clVars, chVars, evVars >>

ghostVars == << shutdownReqs, heldAtSignal, pulled, pulledPost, submitted,
                admittedPost, dupSubmit, failed, queued, attempted, dupAttempt,
              writeErrs, doneSignals, readErrs, shutdownErrs >>

(* the history of what was queued for and taken by reflectPacket *)
reflHist == << failed, queued, attempted, dupAttempt, writeErrs >>

(* the history of hashPacket and of the ways recvPacket ends *)
hashHist == << shutdownReqs, heldAtSignal, pulled, pulledPost, submitted,
               admittedPost, dupSubmit, doneSignals, readErrs, shutdownErrs >>

(* the process exists: its goroutines run, also while one of them unwinds  *)
(* from a panic                                                             *)
Running == proc \in {"running", "panicking"}

(* the Receiver has placed the done signal on doneChan *)
DoneSignalled == recvPc = "done"

ServerInit ==
    /\ proc = "running"
    /\ numConcurrentJobs \in 1..MaxJobs
    /\ recvPc = "loop" /\ hashPc = "select" /\ reflPc = "select" /\ mainPc = "wait"
    /\ packetsRecvCounter = 0 /\ packetsSentCounter = 0
    /\ pool = {}
    /\ doneChan = 0
    /\ tokens = 0
    /\ wgBackend = 0
    /\ exch = {}
    /\ held = NoPacket
    /\ writeChan = <<>> /\ writeClosed = FALSE
    /\ shutdownReqs = 0
    /\ heldAtSignal = 0 /\ pulled = {} /\ pulledPost = {}
    /\ submitted = {} /\ admittedPost = {} /\ dupSubmit = FALSE
    /\ failed = {} /\ queued = {} /\ attempted = {} /\ dupAttempt = FALSE
    /\ writeErrs = 0
    /\ doneSignals = 0
    /\ readErrs = 0
    /\ staged = 0
    /\ shutdownErrs = 0

(* http_backend.go main: fnvHash = fnv.New64a(), the context made, the two  *)
(* handlers registered, the listener started, main at its select; no        *)
(* request yet                                                              *)
HsStart ==
    /\ fnvHash = OffsetBasis64
    /\ handlers = {}
    /\ hsAccepted = 0
    /\ responses = {}
    /\ hsMainPc = "select"
    /\ hsCtxDone = FALSE
    /\ hsListening = TRUE
    /\ replies = {}
    /\ cancelledBy = {}
    /\ shutdownCalls = 0

(* udp_client.go main: the empty map, the counters at zero, the channels    *)
(* made, the deadline set and the four goroutines started                   *)
ClStart ==
    /\ clProc = "running"
    /\ deadline = FALSE
    /\ sendPc = "loop" /\ messgCounter = 0 /\ clSentCounter = 0
    /\ rcvPc = "loop" /\ arrived = [i \in Ids |-> 0] /\ nArrived = 0
    /\ rcvBuf = <<>>
    /\ clWriteChan = <<>> /\ clWriteClosed = FALSE
    /\ readChan = <<>> /\ readClosed = FALSE
    /\ cwPc = "select" /\ cwId = 0
    /\ crPc = "select" /\ crId = 0
    /\ set = {}
    /\ setMutex = [writer |-> "none", readers |-> {}]
    /\ clRecvCounter = 0 /\ clNotSentCounter = 0
    /\ clMainPc = "wait"
    /\ matchCount = [i \in Ids |-> 0]
    /\ missCount = [i \in Ids |-> 0]
    /\ earlyIds = {}
    /\ handed = <<>>

(* part_001 main: both channels made, the counters at zero, the three       *)
(* goroutines started                                                       *)
ChStart ==
    /\ chProc = "running"
    /\ chRecvPc = "loop" /\ chBuffer = NoPacket
    /\ recvIn = <<>> /\ recvInClosed = FALSE
    /\ chHashPc = "select" /\ chPacket = NoPacket
    /\ chWriteOut = <<>> /\ chWriteClosed = FALSE
    /\ chReflPc = "select"
    /\ chRecvCounter = 0 /\ chSentCounter = 0
    /\ chMainPc = "wait"
    /\ chReads = 0

(* handleUDPConnection: the wait group and the counters at zero *)
EvStart ==
    /\ evProc = "running"
    /\ evPc = "loop"
    /\ evRecvCounter = 0 /\ evSentCounter = 0
    /\ evFlows = {}
    /\ evWg = 0
    /\ evWrites = 0
    /\ evReported = -1

(* the other variants of the server, not started *)
VariantsStart == ChStart /\ EvStart

(* the hashing server alone: the service and the client do not move *)
Init ==
    /\ ServerInit
    /\ HsStart
    /\ ClStart /\ faithful = TRUE
    /\ VariantsStart

(* ---------------- Receiver: recvPacket ---------------- *)

(* a Put that stores the packet under the number of the next datagram *)
PoolPutAhead(p, x) == p \cup {[x EXCEPT !.seq = @ + 1]}

(* pool.Put never waits: sync.Pool has no capacity *)
PoolPut(p, x) == p \cup {x}

(* doneChan made without a buffer: the send needs hashPacket at its select *)
DoneSendReadyUnbuffered(dc) == dc < DoneChanCap /\ hashPc = "select"

(* a send on doneChan (buffered, capacity 1) can proceed *)
DoneSendReady(dc) == dc < DoneChanCap

(* a Receiver that goes on reading after the deadline has expired *)
InReadLoopAfterBreak(pc) == TRUE

(* the Receiver is inside receiveSendLoop: it has not taken the break *)
InReadLoop(pc) == pc = "loop"

(* a datagram staged without being counted *)
CountRecvSkipped(c) == c

(* *packetsRecvCounter++ *)
CountRecv(c) == c + 1

(* conn.ReadFromUDP returns a datagram: pool.Put and *packetsRecvCounter++ *)
RecvRead ==
    /\ Running /\ InReadLoop(recvPc)
    /\ packetsRecvCounter < MaxRecv
    /\ \E d \in Datagrams :
          pool' = PoolPut(pool, ReadFromUDP(d, packetsRecvCounter + 1))
    /\ staged' = staged + 1
    /\ packetsRecvCounter' = CountRecv(packetsRecvCounter)
    /\ UNCHANGED << hsVars, clVars, chVars, evVars, proc, numConcurrentJobs, recvPc, hashPc, reflPc, mainPc,
                    packetsSentCounter, doneChan, tokens, wgBackend, exch, held,
                    writeChan, writeClosed, ghostVars >>

(* the read deadline expires: break receiveSendLoop *)
RecvTimeout ==
    /\ Running /\ recvPc = "loop"
    /\ recvPc' = "signal"
    /\ UNCHANGED << hsVars, clVars, chVars, evVars, staged, proc, numConcurrentJobs, hashPc, reflPc, mainPc,
                    packetsRecvCounter, packetsSentCounter, pool, doneChan, tokens,
                    wgBackend, exch, held, writeChan, writeClosed,
                    ghostVars >>

(* the error only logged: the process goes on *)
LogPrintln(p) == p

(* log.Fatal: the message is printed and os.Exit(1) ends the process *)
LogFatal(p) == "fatal"

(* any other read error: log.Fatal ends the process *)
RecvFatal ==
    /\ Running /\ recvPc = "loop"
    /\ proc' = LogFatal(proc)
    /\ readErrs' = readErrs + 1
    /\ UNCHANGED << hsVars, clVars, chVars, evVars, staged, numConcurrentJobs, recvPc, hashPc, reflPc, mainPc,
                    packetsRecvCounter, packetsSentCounter, pool, doneChan, tokens,
                    wgBackend, exch, held, writeChan, writeClosed,
                    shutdownReqs, heldAtSignal, pulled, pulledPost, submitted,
                    admittedPost, dupSubmit, doneSignals, shutdownErrs, reflHist >>

(* doneChan <- struct{}{} ; then the deferred wg.Done() *)
RecvSignal ==
    /\ Running /\ recvPc = "signal"
    /\ DoneSendReady(doneChan)
    /\ doneChan' = doneChan + 1
    /\ recvPc' = "done"
    /\ heldAtSignal' = IF hashPc = "acquire" THEN held.seq
                       ELSE IF hashPc = "get" THEN -1 ELSE 0
    /\ doneSignals' = doneSignals + 1
    /\ UNCHANGED << hsVars, clVars, chVars, evVars, staged, proc, numConcurrentJobs, hashPc, reflPc, mainPc,
                    packetsRecvCounter, packetsSentCounter, pool, tokens,
                    wgBackend, exch, held, writeChan, writeClosed,
                    shutdownReqs, pulled, pulledPost, submitted, admittedPost,
                    dupSubmit, readErrs, shutdownErrs, reflHist >>

(* ---------------- Staging Pool: sync.Pool ---------------- *)

(* what pool.Get may return: a stored packet, or New() when it finds none  *)
(* (an item in another P's private slot is not found)                       *)
PoolGet(p) == p \cup {NewPacketStruct}

(* sync.Pool may drop a stored item at any time (garbage collection) *)
PoolEvict ==
    /\ Running
    /\ \E p \in pool : pool' = pool \ {p}
    /\ UNCHANGED << hsVars, clVars, chVars, evVars, staged, proc, numConcurrentJobs, recvPc, hashPc, reflPc, mainPc,
                    packetsRecvCounter, packetsSentCounter, doneChan, tokens,
                    wgBackend, exch, held, writeChan, writeClosed,
                    ghostVars >>

(* ---------------- Dispatcher: hashPacket ---------------- *)

(* a done case that is never ready: the signal is never received *)
DoneReadyNever(dc) == FALSE

(* select: the case <-doneChan is ready *)
DoneReady(dc) == dc > 0

(* the pool is polled whether or not the done case is ready *)
DefaultChosenAlways(dc) == TRUE

(* select: the default case runs only when no other case is ready *)
DefaultChosen(dc) == ~DoneReady(dc)

(* a tokens channel that never fills: no limit on admissions *)
TokenSendReadyUnlimited(t, n) == TRUE

(* tokens <- struct{}{} can proceed: the channel has a free slot *)
TokenSendReady(t, n) == t < n

(* the packet in hand is dropped when the done signal has arrived meanwhile *)
SpawnUnlessDone(ex, p) ==
    IF doneChan > 0 THEN ex ELSE ex \cup {[pkt |-> p, pc |-> "await"]}

(* go commBackend(client, hashURL, *packet, ...): the new goroutine marshals *)
(* its copy of the packet, builds the request and waits in client.Do        *)
Spawn(ex, p) == ex \cup {[pkt |-> p, pc |-> "await"]}

(* a Get that hands out a stored packet and leaves it in the pool *)
PoolTakeKeeps(p, x) == p

(* pool.Get removes the item it returns from the pool *)
PoolTake(p, x) == p \ {x}

(* the done case falls through to the next iteration of the loop *)
ContinueHashLoop == "select"

(* break hashLoop: on to wgBackend.Wait() *)
BreakHashLoop == "wait"

(* case <-doneChan: break hashLoop *)
HashDone ==
    /\ Running /\ hashPc = "select"
    /\ DoneReady(doneChan)
    /\ doneChan' = doneChan - 1
    /\ hashPc' = BreakHashLoop
    /\ UNCHANGED << hsVars, clVars, chVars, evVars, staged, proc, numConcurrentJobs, recvPc, reflPc, mainPc,
                    packetsRecvCounter, packetsSentCounter, pool, tokens,
                    wgBackend, exch, held, writeChan, writeClosed,
                    ghostVars >>

(* select finds no case ready and runs default: a new iteration, in which  *)
(* packet is not yet declared                                               *)
HashDefault ==
    /\ Running /\ hashPc = "select"
    /\ DefaultChosen(doneChan)
    /\ hashPc' = "get"
    /\ held' = NoPacket
    /\ UNCHANGED << hsVars, clVars, chVars, evVars, staged, proc, numConcurrentJobs, recvPc, reflPc, mainPc,
                    packetsRecvCounter, packetsSentCounter, pool, doneChan, tokens,
                    wgBackend, exch, writeChan, writeClosed,
                    ghostVars >>

(* packet := pool.Get(); a real packet goes on to the token send, a         *)
(* placeholder back to the select                                           *)
HashGet ==
    /\ Running /\ hashPc = "get"
    /\ \E p \in PoolGet(pool) :
          /\ pool' = PoolTake(pool, p)
          /\ held' = p
          /\ hashPc' = IF IsReal(p) THEN "acquire" ELSE "select"
          /\ pulled' = IF p = NewPacketStruct THEN pulled ELSE pulled \cup {p.seq}
          /\ pulledPost' = IF p # NewPacketStruct /\ DoneSignalled
                           THEN pulledPost \cup {p.seq} ELSE pulledPost
    /\ UNCHANGED << hsVars, clVars, chVars, evVars, staged, proc, numConcurrentJobs, recvPc, reflPc, mainPc,
                    packetsRecvCounter, packetsSentCounter, doneChan, tokens,
                    wgBackend, exch, writeChan, writeClosed,
                    shutdownReqs, heldAtSignal, submitted, admittedPost, dupSubmit,
                    doneSignals, readErrs, shutdownErrs, reflHist >>

(* the exchange is spawned without being registered *)
WgAddSkipped(wg) == wg

(* wgBackend.Add(1), called by hashPacket before the go statement *)
WgAdd(wg) == wg + 1

(* tokens <- struct{}{} ; wgBackend.Add(1) ; go commBackend(...) *)
HashAcquire ==
    /\ Running /\ hashPc = "acquire"
    /\ TokenSendReady(tokens, numConcurrentJobs)
    /\ tokens' = tokens + 1
    /\ wgBackend' = WgAdd(wgBackend)
    /\ exch' = Spawn(exch, held)
    /\ hashPc' = "select"
    /\ LET new == {e.pkt.seq : e \in exch' \ exch} IN
          /\ submitted' = submitted \cup new
          /\ dupSubmit' = (dupSubmit \/ new \cap submitted # {})
          /\ admittedPost' = IF DoneSignalled THEN admittedPost \cup new
                             ELSE admittedPost
    /\ held' = NoPacket
    /\ UNCHANGED << hsVars, clVars, chVars, evVars, staged, proc, numConcurrentJobs, recvPc, reflPc, mainPc,
                    packetsRecvCounter, packetsSentCounter, pool, doneChan,
                    writeChan, writeClosed,
                    shutdownReqs, heldAtSignal, pulled, pulledPost, doneSignals,
                    readErrs, shutdownErrs, reflHist >>

(* the wait for the outstanding exchanges is skipped *)
WaitReturnsAtOnce(wg) == TRUE

(* wgBackend.Wait() returns when the counter is zero *)
WaitReturns(wg) == wg = 0

(* wgBackend.Wait() *)
HashWait ==
    /\ Running /\ hashPc = "wait"
    /\ WaitReturns(wgBackend)
    /\ hashPc' = "close"
    /\ UNCHANGED << hsVars, clVars, chVars, evVars, staged, proc, numConcurrentJobs, recvPc, reflPc, mainPc,
                    packetsRecvCounter, packetsSentCounter, pool, doneChan, tokens,
                    wgBackend, exch, held, writeChan, writeClosed,
                    ghostVars >>

(* close(writeOut) *)
HashClose ==
    /\ Running /\ hashPc = "close"
    /\ writeClosed' = TRUE
    /\ hashPc' = "shutdown"
    /\ UNCHANGED << hsVars, clVars, chVars, evVars, staged, proc, numConcurrentJobs, recvPc, reflPc, mainPc,
                    packetsRecvCounter, packetsSentCounter, pool, doneChan, tokens,
                    wgBackend, exch, held, writeChan, ghostVars >>

(* http.NewRequest("GET", shutdownURL, nil) ; client.Do(request) is issued *)
HashShutdownReq ==
    /\ Running /\ hashPc = "shutdown"
    /\ shutdownReqs' = shutdownReqs + 1
    /\ hashPc' = "shutdownAwait"
    /\ UNCHANGED << hsVars, clVars, chVars, evVars, staged, proc, numConcurrentJobs, recvPc, reflPc, mainPc,
                    packetsRecvCounter, packetsSentCounter, pool, doneChan, tokens,
                    wgBackend, exch, held, writeChan, writeClosed,
                    heldAtSignal, pulled, pulledPost, submitted, admittedPost,
                    dupSubmit, doneSignals, readErrs, shutdownErrs, reflHist >>

(* client.Do returns.  Without an error the body is read and logged and    *)
(* the function returns.  With an error the error is logged, resp is nil    *)
(* and resp.Body is a nil dereference: the goroutine panics.  Either way    *)
(* the deferred wg.Done() runs, on the return or as the panic unwinds.      *)
HashShutdownResp ==
    /\ Running /\ hashPc = "shutdownAwait"
    /\ \E ok \in BOOLEAN :
          IF ok THEN proc' = proc /\ shutdownErrs' = shutdownErrs
                ELSE proc' = "panicking" /\ shutdownErrs' = shutdownErrs + 1
    /\ hashPc' = "done"
    /\ UNCHANGED << hsVars, clVars, chVars, evVars, staged, numConcurrentJobs, recvPc, reflPc, mainPc,
                    packetsRecvCounter, packetsSentCounter, pool, doneChan, tokens,
                    wgBackend, exch, held, writeChan, writeClosed,
                    shutdownReqs, heldAtSignal, pulled, pulledPost, submitted,
                    admittedPost, dupSubmit, doneSignals, readErrs, reflHist >>

(* the panic has unwound hashPacket with nothing to recover it: the runtime *)
(* prints it and ends the process with status 2, unless main has returned   *)
(* first                                                                    *)
HashPanicExit ==
    /\ proc = "panicking" /\ mainPc = "wait"
    /\ proc' = "panic"
    /\ UNCHANGED << hsVars, clVars, chVars, evVars, staged, numConcurrentJobs, recvPc, hashPc, reflPc, mainPc,
                    packetsRecvCounter, packetsSentCounter, pool, doneChan, tokens,
                    wgBackend, exch, held, writeChan, writeClosed,
                    ghostVars >>

(* ---------------- backend exchange: commBackend ---------------- *)

(* return on a failure path: only the deferred wgBackend.Done() runs *)
FailReturn(e) ==
    /\ exch' = exch \ {e}
    /\ wgBackend' = wgBackend - 1
    /\ UNCHANGED tokens

(* what the Hashing Service may answer: the encoded 8-byte hash it computed, *)
(* or an error page                                                         *)
Responses ==
    {[body |-> JSONEncode(h), hash |-> h] : h \in HashValues}
        \cup {[body |-> NotFoundBody, hash |-> <<>>]}

(* client.Do returns an error, or ioutil.ReadAll fails, or the body is read *)
(* and json.Unmarshal(body, &buffer) decodes it; on success the hash is     *)
(* appended and the exchange goes on to the channel send.                   *)
ExchResponse ==
    /\ Running
    /\ \E e \in exch :
          /\ e.pc = "await"
          /\ \/ /\ FailReturn(e)
                /\ failed' = failed \cup {e.pkt.seq}
             \/ \E r \in Responses :
                   LET u == JSONUnmarshal(r.body) IN
                   /\ failed' = IF r.hash = <<>> THEN failed \cup {e.pkt.seq}
                                 ELSE failed
                   /\ IF u.err THEN FailReturn(e)
                      ELSE /\ exch' = (exch \ {e}) \cup
                                   {[e EXCEPT !.pc = "send",
                                              !.pkt.Packet = AppendHash(e.pkt.Packet, u.val),
                                              !.pkt.gHash = r.hash]}
                           /\ UNCHANGED << tokens, wgBackend >>
    /\ UNCHANGED << hsVars, clVars, chVars, evVars, staged, proc, numConcurrentJobs, recvPc, hashPc, reflPc, mainPc,
                    packetsRecvCounter, packetsSentCounter, pool, doneChan,
                    held, writeChan, writeClosed, hashHist,
                    queued, attempted, dupAttempt, writeErrs >>

(* writeOut <- packet: waits while the channel is full, panics if closed *)
ExchSend ==
    /\ Running
    /\ \E e \in exch :
          /\ e.pc = "send"
          /\ IF writeClosed
             THEN /\ proc' = "panic"
                  /\ UNCHANGED << exch, writeChan, queued >>
             ELSE /\ Len(writeChan) < ChanCap
                  /\ writeChan' = Append(writeChan, e.pkt)
                  /\ exch' = (exch \ {e}) \cup {[e EXCEPT !.pc = "release"]}
                  /\ queued' = queued \cup {e.pkt.seq}
                  /\ proc' = proc
    /\ UNCHANGED << hsVars, clVars, chVars, evVars, staged, numConcurrentJobs, recvPc, hashPc, reflPc, mainPc,
                    packetsRecvCounter, packetsSentCounter, pool, doneChan, tokens,
                    wgBackend, held, writeClosed, hashHist,
                    failed, attempted, dupAttempt, writeErrs >>

(* <- tokens, the last statement of the success path, then the return and  *)
(* the deferred wgBackend.Done()                                            *)
ExchRelease ==
    /\ Running
    /\ \E e \in exch :
          /\ e.pc = "release"
          /\ tokens > 0
          /\ tokens' = tokens - 1
          /\ exch' = exch \ {e}
          /\ wgBackend' = wgBackend - 1
    /\ UNCHANGED << hsVars, clVars, chVars, evVars, staged, proc, numConcurrentJobs, recvPc, hashPc, reflPc, mainPc,
                    packetsRecvCounter, packetsSentCounter, pool, doneChan,
                    held, writeChan, writeClosed, ghostVars >>

(* ---------------- Transmitter: reflectPacket ---------------- *)

(* a write counted whether or not WriteToUDP returned an error *)
CountSentAlways(c, ok) == c + 1

(* if err != nil { log.Println(...) } else { *packetsSentCounter++ } *)
CountSent(c, ok) == IF ok THEN c + 1 ELSE c

(* case packet, ok := <-writeOut with ok true: the packet is written with   *)
(* conn.WriteToUDP(packet.Packet, packet.Addr) and counted when that        *)
(* succeeds; an error is logged and the loop goes on                        *)
ReflectWrite ==
    /\ Running /\ reflPc = "select"
    /\ Len(writeChan) > 0
    /\ writeChan' = Tail(writeChan)
    /\ \E ok \in BOOLEAN :
          /\ packetsSentCounter' = CountSent(packetsSentCounter, ok)
          /\ writeErrs' = IF ok THEN writeErrs ELSE writeErrs + 1
    /\ attempted' = attempted \cup {Head(writeChan).seq}
    /\ dupAttempt' = (dupAttempt \/ Head(writeChan).seq \in attempted)
    /\ UNCHANGED << hsVars, clVars, chVars, evVars, staged, proc, numConcurrentJobs, recvPc, hashPc, reflPc, mainPc,
                    packetsRecvCounter, pool, doneChan, tokens,
                    wgBackend, exch, held, writeClosed, hashHist,
                    failed, queued >>

(* a receive that reports the close while packets are still buffered *)
RecvNotOkOnClose(ch, closed) == closed

(* a receive that never reports the close *)
RecvNotOkNever(ch, closed) == FALSE

(* packet, ok := <-writeOut yields ok false: closed and nothing buffered *)
RecvNotOk(ch, closed) == Len(ch) = 0 /\ closed

(* ok false: the channel is closed and drained; break reflectLoop *)
ReflectExit ==
    /\ Running /\ reflPc = "select"
    /\ RecvNotOk(writeChan, writeClosed)
    /\ reflPc' = "done"
    /\ UNCHANGED << hsVars, clVars, chVars, evVars, staged, proc, numConcurrentJobs, recvPc, hashPc, mainPc,
                    packetsRecvCounter, packetsSentCounter, pool, doneChan, tokens,
                    wgBackend, exch, held, writeChan, writeClosed,
                    ghostVars >>

(* ---------------- main ---------------- *)

(* wg.Wait() returns and the counters are logged *)
MainReport ==
    /\ Running /\ mainPc = "wait"
    /\ recvPc = "done" /\ hashPc = "done" /\ reflPc = "done"
    /\ mainPc' = "done"
    /\ UNCHANGED << hsVars, clVars, chVars, evVars, staged, proc, numConcurrentJobs, recvPc, hashPc, reflPc,
                    packetsRecvCounter, packetsSentCounter, pool, doneChan, tokens,
                    wgBackend, exch, held, writeChan, writeClosed,
                    ghostVars >>

Next ==
    \/ RecvRead \/ RecvTimeout \/ RecvFatal \/ RecvSignal
    \/ PoolEvict
    \/ HashDone \/ HashDefault \/ HashGet \/ HashAcquire
    \/ HashWait \/ HashClose \/ HashShutdownReq \/ HashShutdownResp
    \/ HashPanicExit
    \/ ExchResponse \/ ExchSend
    \/ ExchRelease
    \/ ReflectWrite \/ ReflectExit
    \/ MainReport

Spec == Init /\ [][Next]_vars

(* program steps: everything but the arrival of datagrams, a fatal read     *)
(* error and the pool's garbage collection                                  *)
Prog ==
    \/ RecvTimeout \/ RecvSignal
    \/ HashDone \/ HashDefault \/ HashGet \/ HashAcquire
    \/ HashWait \/ HashClose \/ HashShutdownReq \/ HashShutdownResp
    \/ HashPanicExit
    \/ ExchResponse \/ ExchSend \/ ExchRelease
    \/ ReflectWrite \/ ReflectExit
    \/ MainReport

(* every goroutine that can take a step eventually does; every exchange in  *)
(* flight eventually gets its answer or its error                           *)
FairSpec == Spec /\ WF_vars(Prog)

TypeOK ==
    /\ proc \in {"running", "panicking", "fatal", "panic"}
    /\ tokens \in 0..numConcurrentJobs
    /\ wgBackend = Cardinality(exch)

(* ================= Hashing Service: http_backend.go ================= *)

(* payloads the server asks the service to hash: "", "a", "foobar" *)
HsPayloads == { <<>>, <<97>>, <<102, 111, 111, 98, 97, 114>> }

(* buffer := make([]byte, int(req.ContentLength)) ; json.Unmarshal(reqBody, *)
(* &buffer), its error ignored: the zeroed buffer stays when decoding fails *)
RequestBuffer(reqBody) ==
    LET u == JSONUnmarshal(reqBody)
    IN  IF u.err THEN Zeros(Len(reqBody)) ELSE u.val

(* a deferred Reset that leaves the accumulator as it is *)
ResetKeeps(h) == h

(* sum64a.Reset: *s = offset64 *)
Reset(h) == OffsetBasis64

(* sum64a.Sum64: the value of the accumulator *)
Sum64(h) == h

(* the requests a client may send: a path, a method, and for /hash the      *)
(* payload whose encoding is the body                                       *)
Requests ==
    { [path |-> "/hash", method |-> "GET", p |-> p] : p \in HsPayloads }
    \cup { [path |-> "/hash", method |-> "POST", p |-> <<97>>],
           [path |-> "/shutdown", method |-> "GET", p |-> <<>>],
           [path |-> "/shutdown", method |-> "POST", p |-> <<>>],
           [path |-> "/status", method |-> "GET", p |-> <<>>] }

(* the ServeMux with the patterns "/shutdown" and "/hash": an exact match   *)
(* selects the handler, any other path gets the mux's 404                   *)
Route(path) ==
    IF path = "/shutdown" THEN "shutdown"
    ELSE IF path = "/hash" THEN "hash"
    ELSE "notfound"

(* where the handler of a request starts: hashHandler computes for a GET    *)
(* and answers 404 otherwise; the shutdown handler tests the path only      *)
HandlerEntry(q) ==
    CASE Route(q.path) = "shutdown" -> "ack"
      [] Route(q.path) = "hash" /\ q.method = "GET" -> "load"
      [] OTHER -> "reject"

(* the process of the service exists: main has not returned *)
HsAlive == hsMainPc # "exited"

(* a request arrives on the open listener and its handler goroutine starts; *)
(* for GET /hash the body json.Marshal(p) is read and decoded into buffer   *)
HsAccept ==
    /\ HsAlive /\ hsListening
    /\ hsAccepted < MaxReqs
    /\ \E q \in Requests :
          handlers' = { [h EXCEPT !.alone = FALSE] : h \in handlers } \cup
                      { [id |-> hsAccepted + 1, p |-> q.p,
                         path |-> q.path, method |-> q.method,
                         buffer |-> IF HandlerEntry(q) = "load"
                                    THEN RequestBuffer(JSONMarshal(q.p)) ELSE <<>>,
                         pc |-> HandlerEntry(q), hash |-> OffsetBasis64,
                         alone |-> handlers = {}] }
    /\ hsAccepted' = hsAccepted + 1
    /\ UNCHANGED << srvVars, clVars, chVars, evVars, shutdownCalls, fnvHash, responses,
                    hsMainPc, hsCtxDone, hsListening, replies, cancelledBy >>

(* fnvHash.Write(packet), first half: hash := *s *)
HsWriteLoad ==
    /\ HsAlive
    /\ \E h \in handlers :
          /\ h.pc = "load"
          /\ handlers' = (handlers \ {h}) \cup
                         {[h EXCEPT !.pc = "store", !.hash = fnvHash]}
    /\ UNCHANGED << srvVars, clVars, chVars, evVars, shutdownCalls, fnvHash, hsAccepted, responses,
                    hsMainPc, hsCtxDone, hsListening, replies, cancelledBy >>

(* fnvHash.Write(packet), second half: the loop over the bytes ; *s = hash *)
HsWriteStore ==
    /\ HsAlive
    /\ \E h \in handlers :
          /\ h.pc = "store"
          /\ fnvHash' = FnvLoop(h.hash, h.buffer)
          /\ handlers' = (handlers \ {h}) \cup {[h EXCEPT !.pc = "sum"]}
    /\ UNCHANGED << srvVars, clVars, chVars, evVars, shutdownCalls, hsAccepted, responses,
                    hsMainPc, hsCtxDone, hsListening, replies, cancelledBy >>

(* hashValue := fnvHash.Sum64() *)
HsSum64 ==
    /\ HsAlive
    /\ \E h \in handlers :
          /\ h.pc = "sum"
          /\ handlers' = (handlers \ {h}) \cup
                         {[h EXCEPT !.pc = "reset", !.hash = Sum64(fnvHash)]}
    /\ UNCHANGED << srvVars, clVars, chVars, evVars, shutdownCalls, fnvHash, hsAccepted, responses,
                    hsMainPc, hsCtxDone, hsListening, replies, cancelledBy >>

(* the deferred fnvHash.Reset() runs as get64FNV1aHash returns; the handler *)
(* then puts hashValue big-endian into 8 bytes, encodes them as the body    *)
(* and returns, which sends the response                                    *)
HsResetRespond ==
    /\ HsAlive
    /\ \E h \in handlers :
          /\ h.pc = "reset"
          /\ fnvHash' = Reset(fnvHash)
          /\ responses' = responses \cup
                { [id |-> h.id, p |-> h.p, alone |-> h.alone,
                   body |-> JSONEncode(PutUint64BE(h.hash))] }
          /\ handlers' = handlers \ {h}
    /\ UNCHANGED << srvVars, clVars, chVars, evVars, shutdownCalls, hsAccepted,
                    hsMainPc, hsCtxDone, hsListening, replies, cancelledBy >>

(* http.Error(w, ..., http.StatusNotFound): from the mux for an unknown     *)
(* path, from hashHandler for a method other than GET                       *)
HsReject ==
    /\ HsAlive
    /\ \E h \in handlers :
          /\ h.pc = "reject"
          /\ replies' = replies \cup
                { [id |-> h.id, path |-> h.path, method |-> h.method,
                   status |-> 404] }
          /\ handlers' = handlers \ {h}
    /\ UNCHANGED << srvVars, clVars, chVars, evVars, shutdownCalls, fnvHash, hsAccepted, responses,
                    hsMainPc, hsCtxDone, hsListening, cancelledBy >>

(* a cancel that undoes an earlier one *)
CancelToggles(done) == ~done

(* cancel() of context.WithCancel: ctx is done from the first call on *)
Cancel(done) == TRUE

(* the shutdown handler: the path is the pattern, so the 404 branch is not  *)
(* taken; w.Write([]byte("Shutdown HTTP server")) goes to the response      *)
(* buffer, then cancel()                                                    *)
HsShutdownAck ==
    /\ HsAlive
    /\ \E h \in handlers :
          /\ h.pc = "ack"
          /\ hsCtxDone' = Cancel(hsCtxDone)
          /\ cancelledBy' = cancelledBy \cup {h.id}
          /\ handlers' = (handlers \ {h}) \cup {[h EXCEPT !.pc = "return"]}
    /\ UNCHANGED << srvVars, clVars, chVars, evVars, shutdownCalls, fnvHash, hsAccepted, responses,
                    hsMainPc, hsListening, replies >>

(* the shutdown handler returns: the buffered response is sent *)
HsShutdownReturn ==
    /\ HsAlive
    /\ \E h \in handlers :
          /\ h.pc = "return"
          /\ replies' = replies \cup
                { [id |-> h.id, path |-> h.path, method |-> h.method,
                   status |-> 200] }
          /\ handlers' = handlers \ {h}
    /\ UNCHANGED << srvVars, clVars, chVars, evVars, shutdownCalls, fnvHash, hsAccepted, responses,
                    hsMainPc, hsCtxDone, hsListening, cancelledBy >>

(* case <-ctx.Done(): serv.Shutdown(ctx).  Shutdown closes the listener and *)
(* the idle connections, then waits for the others until ctx is done: ctx   *)
(* is done already, so it returns at once                                   *)
HsMainShutdown ==
    /\ hsMainPc = "select" /\ hsCtxDone
    /\ hsListening' = FALSE
    /\ hsMainPc' = "log"
    /\ shutdownCalls' = shutdownCalls + 1
    /\ UNCHANGED << srvVars, clVars, chVars, evVars, fnvHash, handlers, hsAccepted, responses,
                    hsCtxDone, replies, cancelledBy >>

(* log.Printf("Finished") and main returns: the process ends, with every    *)
(* handler goroutine still running                                          *)
HsMainExit ==
    /\ hsMainPc = "log"
    /\ hsMainPc' = "exited"
    /\ UNCHANGED << srvVars, clVars, chVars, evVars, shutdownCalls, fnvHash, handlers, hsAccepted, responses,
                    hsCtxDone, hsListening, replies, cancelledBy >>

HsNext ==
    \/ HsAccept \/ HsWriteLoad \/ HsWriteStore \/ HsSum64 \/ HsResetRespond
    \/ HsReject \/ HsShutdownAck \/ HsShutdownReturn
    \/ HsMainShutdown \/ HsMainExit

(* the Hashing Service alone, serving up to MaxReqs requests *)
HsInit ==
    /\ HsStart
    /\ ServerInit /\ numConcurrentJobs = 1
    /\ ClStart /\ faithful = TRUE
    /\ VariantsStart

HashSpec == HsInit /\ [][HsNext]_vars

(* ======================= client: udp_client.go ======================= *)

ClRunning == clProc = "running"

(* what a hashing server answers to the message with this id: the message   *)
(* followed by the 8 bytes of its FNV-1a hash                               *)
ReplyOf ==
    [id \in Ids |->
        AppendHash(ClientMessage(id), PutUint64BE(FNV1a64(ClientMessage(id))))]

(* the ids whose datagram has been written to the socket *)
Written ==
    0..(messgCounter - 1)
        \cup (IF sendPc \in {"record", "count"} THEN {messgCounter} ELSE {})

(* the datagrams the socket may deliver next.  A faithful network and       *)
(* server deliver the reply to each written id once; otherwise a reply may  *)
(* come again, and a bare echo of the message (100 bytes, no hash) may come *)
Arrivals ==
    IF faithful
    THEN { [id |-> i, bytes |-> ReplyOf[i], reply |-> TRUE] :
              i \in {j \in Written : arrived[j] = 0} }
    ELSE { [id |-> i, bytes |-> ReplyOf[i], reply |-> TRUE] : i \in Written }
         \cup { [id |-> i, bytes |-> ClientMessage(i), reply |-> FALSE] : i \in Written }

(* a read buffer of 100 bytes: the hash is cut off *)
ClReadFromUDPShort(d) == SubSeq(d, 1, Min(Len(d), MessgSize))

(* n, _, err := conn.ReadFromUDP(buffer) ; buffer[:n], buffer of 108 bytes *)
ClReadFromUDP(d) == SubSeq(d, 1, Min(Len(d), ReplySize))

(* ---- sync.RWMutex ---- *)
Unlocked == [writer |-> "none", readers |-> {}]

(* Lock that does not wait for the readers to leave *)
CanLockDespiteReaders(m) == m.writer = "none"

(* Lock() can proceed: no writer and no reader holds the mutex *)
CanLock(m) == m.writer = "none" /\ m.readers = {}

(* RLock() can proceed: no writer holds the mutex *)
CanRLock(m) == m.writer = "none"

(* ---- the map used as a set ---- *)
(* a lookup that finds every key *)
MapLookupAlways(m, k) == TRUE

(* value := set[intPacket]: true exactly for the keys stored (with true) *)
MapLookup(m, k) == k \in m

(* the id recorded after it was incremented *)
MapInsertNext(m, k) == m \cup {k + 1}

(* set[packetContent] = true *)
MapInsert(m, k) == m \cup {k}

(* a delete that removes nothing *)
MapDeleteNothing(m, k) == m

(* delete(set, intPacket) *)
MapDelete(m, k) == m \ {k}

(* ---- the connection deadline set in main ---- *)
ClDeadline ==
    /\ ClRunning /\ ~deadline
    /\ deadline' = TRUE
    /\ UNCHANGED << srvVars, hsVars, chVars, evVars, handed, clProc, sendPc, messgCounter, clSentCounter,
                    rcvPc, rcvBuf, arrived, nArrived, clWriteChan, clWriteClosed,
                    readChan, readClosed, cwPc, cwId, crPc, crId, set, setMutex,
                    clRecvCounter, clNotSentCounter, clMainPc, faithful,
                    matchCount, missCount, earlyIds >>

(* ---- sendMessages ---- *)
(* conn.Write(messg) succeeds: the datagram with id messgCounter is out *)
SendWrite ==
    /\ ClRunning /\ sendPc = "loop"
    /\ ~deadline
    /\ messgCounter < MaxSend
    /\ sendPc' = "record"
    /\ UNCHANGED << srvVars, hsVars, chVars, evVars, handed, clProc, deadline, messgCounter, clSentCounter,
                    rcvPc, rcvBuf, arrived, nArrived, clWriteChan, clWriteClosed,
                    readChan, readClosed, cwPc, cwId, crPc, crId, set, setMutex,
                    clRecvCounter, clNotSentCounter, clMainPc, faithful,
                    matchCount, missCount, earlyIds >>

(* a send that loses the value *)
ChanSendLost(ch, v) == ch

(* ch <- v on a channel with room *)
ChanSend(ch, v) == Append(ch, v)

(* writeOut <- messgCounter *)
SendRecord ==
    /\ ClRunning /\ sendPc = "record"
    /\ Len(clWriteChan) < ClChanCap
    /\ clWriteChan' = ChanSend(clWriteChan, messgCounter)
    /\ handed' = Append(handed, messgCounter)
    /\ sendPc' = "count"
    /\ UNCHANGED << srvVars, hsVars, chVars, evVars, clProc, deadline, messgCounter, clSentCounter,
                    rcvPc, rcvBuf, arrived, nArrived, clWriteClosed,
                    readChan, readClosed, cwPc, cwId, crPc, crId, set, setMutex,
                    clRecvCounter, clNotSentCounter, clMainPc, faithful,
                    matchCount, missCount, earlyIds >>

(* an id that stays what it was *)
NextIdSame(c) == c

(* messgCounter++ : the uint32 wraps only after 2^32 sends, and the model   *)
(* stops at MaxSend                                                         *)
NextId(c) == c + 1

(* *packetsSentCounter++ ; messgCounter++ *)
SendCount ==
    /\ ClRunning /\ sendPc = "count"
    /\ clSentCounter' = clSentCounter + 1
    /\ messgCounter' = NextId(messgCounter)
    /\ sendPc' = "loop"
    /\ UNCHANGED << srvVars, hsVars, chVars, evVars, handed, clProc, deadline, clWriteChan,
                    rcvPc, rcvBuf, arrived, nArrived, clWriteClosed,
                    readChan, readClosed, cwPc, cwId, crPc, crId, set, setMutex,
                    clRecvCounter, clNotSentCounter, clMainPc, faithful,
                    matchCount, missCount, earlyIds >>

(* conn.Write fails with a timeout: break writeLoop ; close(writeOut) ; the *)
(* deferred wg.Done()                                                       *)
SendTimeout ==
    /\ ClRunning /\ sendPc = "loop"
    /\ deadline
    /\ clWriteClosed' = TRUE
    /\ sendPc' = "done"
    /\ UNCHANGED << srvVars, hsVars, chVars, evVars, handed, clProc, deadline, messgCounter, clSentCounter,
                    rcvPc, rcvBuf, arrived, nArrived, clWriteChan,
                    readChan, readClosed, cwPc, cwId, crPc, crId, set, setMutex,
                    clRecvCounter, clNotSentCounter, clMainPc, faithful,
                    matchCount, missCount, earlyIds >>

(* conn.Write fails with another error: log.Fatal *)
SendFatal ==
    /\ ClRunning /\ sendPc = "loop"
    /\ clProc' = "fatal"
    /\ UNCHANGED << srvVars, hsVars, chVars, evVars, handed, deadline, sendPc, messgCounter, clSentCounter,
                    rcvPc, rcvBuf, arrived, nArrived, clWriteChan, clWriteClosed,
                    readChan, readClosed, cwPc, cwId, crPc, crId, set, setMutex,
                    clRecvCounter, clNotSentCounter, clMainPc, faithful,
                    matchCount, missCount, earlyIds >>

(* ---- receiveMessages ---- *)
(* conn.ReadFromUDP(buffer) returns a datagram *)
RcvRead ==
    /\ ClRunning /\ rcvPc = "loop"
    /\ ~deadline
    /\ nArrived < MaxArrive
    /\ \E d \in Arrivals :
          /\ rcvBuf' = ClReadFromUDP(d.bytes)
          /\ arrived' = IF d.reply THEN [arrived EXCEPT ![d.id] = @ + 1] ELSE arrived
    /\ nArrived' = nArrived + 1
    /\ rcvPc' = "forward"
    /\ UNCHANGED << srvVars, hsVars, chVars, evVars, handed, clProc, deadline, sendPc, messgCounter,
                    clSentCounter, clWriteChan, clWriteClosed,
                    readChan, readClosed, cwPc, cwId, crPc, crId, set, setMutex,
                    clRecvCounter, clNotSentCounter, clMainPc, faithful,
                    matchCount, missCount, earlyIds >>

(* recvOut <- buffer[:n] *)
RcvForward ==
    /\ ClRunning /\ rcvPc = "forward"
    /\ Len(readChan) < ClChanCap
    /\ readChan' = Append(readChan, rcvBuf)
    /\ rcvBuf' = <<>>
    /\ rcvPc' = "loop"
    /\ UNCHANGED << srvVars, hsVars, chVars, evVars, handed, clProc, deadline, sendPc, messgCounter,
                    clSentCounter, arrived, nArrived, clWriteChan, clWriteClosed,
                    readClosed, cwPc, cwId, crPc, crId, set, setMutex,
                    clRecvCounter, clNotSentCounter, clMainPc, faithful,
                    matchCount, missCount, earlyIds >>

(* the read fails with a timeout: break receiveLoop ; close(recvOut) ; the  *)
(* deferred wg.Done()                                                       *)
RcvTimeout ==
    /\ ClRunning /\ rcvPc = "loop"
    /\ deadline
    /\ readClosed' = TRUE
    /\ rcvPc' = "done"
    /\ UNCHANGED << srvVars, hsVars, chVars, evVars, handed, clProc, deadline, sendPc, messgCounter,
                    clSentCounter, rcvBuf, arrived, nArrived, clWriteChan,
                    clWriteClosed, readChan, cwPc, cwId, crPc, crId, set, setMutex,
                    clRecvCounter, clNotSentCounter, clMainPc, faithful,
                    matchCount, missCount, earlyIds >>

(* the read fails with another error: log.Fatal *)
RcvFatal ==
    /\ ClRunning /\ rcvPc = "loop"
    /\ clProc' = "fatal"
    /\ UNCHANGED << srvVars, hsVars, chVars, evVars, handed, deadline, sendPc, messgCounter, clSentCounter,
                    rcvPc, rcvBuf, arrived, nArrived, clWriteChan, clWriteClosed,
                    readChan, readClosed, cwPc, cwId, crPc, crId, set, setMutex,
                    clRecvCounter, clNotSentCounter, clMainPc, faithful,
                    matchCount, missCount, earlyIds >>

(* ---- countWritten ---- *)
(* case packetContent, ok := <-writeIn with ok true *)
CwTake ==
    /\ ClRunning /\ cwPc = "select"
    /\ Len(clWriteChan) > 0
    /\ cwId' = Head(clWriteChan)
    /\ clWriteChan' = Tail(clWriteChan)
    /\ cwPc' = "lock"
    /\ UNCHANGED << srvVars, hsVars, chVars, evVars, handed, clProc, deadline, sendPc, messgCounter,
                    clSentCounter, rcvPc, rcvBuf, arrived, nArrived, clWriteClosed,
                    readChan, readClosed, crPc, crId, set, setMutex,
                    clRecvCounter, clNotSentCounter, clMainPc, faithful,
                    matchCount, missCount, earlyIds >>

(* setMutex.Lock() *)
CwLock ==
    /\ ClRunning /\ cwPc = "lock"
    /\ CanLock(setMutex)
    /\ setMutex' = [setMutex EXCEPT !.writer = "cw"]
    /\ cwPc' = "insert"
    /\ UNCHANGED << srvVars, hsVars, chVars, evVars, handed, clProc, deadline, sendPc, messgCounter,
                    clSentCounter, rcvPc, rcvBuf, arrived, nArrived, clWriteChan,
                    clWriteClosed, readChan, readClosed, cwId, crPc, crId, set,
                    clRecvCounter, clNotSentCounter, clMainPc, faithful,
                    matchCount, missCount, earlyIds >>

(* set[packetContent] = true ; setMutex.Unlock() *)
CwInsert ==
    /\ ClRunning /\ cwPc = "insert"
    /\ set' = MapInsert(set, cwId)
    /\ setMutex' = [setMutex EXCEPT !.writer = "none"]
    /\ cwPc' = "select"
    /\ UNCHANGED << srvVars, hsVars, chVars, evVars, handed, clProc, deadline, sendPc, messgCounter,
                    clSentCounter, rcvPc, rcvBuf, arrived, nArrived, clWriteChan,
                    clWriteClosed, readChan, readClosed, cwId, crPc, crId,
                    clRecvCounter, clNotSentCounter, clMainPc, faithful,
                    matchCount, missCount, earlyIds >>

(* ok false: break writeLoop ; the deferred wg.Done() *)
CwExit ==
    /\ ClRunning /\ cwPc = "select"
    /\ RecvNotOk(clWriteChan, clWriteClosed)
    /\ cwPc' = "done"
    /\ UNCHANGED << srvVars, hsVars, chVars, evVars, handed, clProc, deadline, sendPc, messgCounter,
                    clSentCounter, rcvPc, rcvBuf, arrived, nArrived, clWriteChan,
                    clWriteClosed, readChan, readClosed, cwId, crPc, crId, set,
                    setMutex, clRecvCounter, clNotSentCounter, clMainPc, faithful,
                    matchCount, missCount, earlyIds >>

(* ---- countWrittenRecv ---- *)
(* a length test that lets every packet through *)
TooShortNever(packet) == FALSE

(* len(packet) < 108 *)
TooShort(packet) == Len(packet) < ReplySize

(* case packet, ok := <-recvIn with ok true: a packet shorter than 108      *)
(* bytes is only logged; otherwise intPacket is read from its first bytes   *)
CrTake ==
    /\ ClRunning /\ crPc = "select"
    /\ Len(readChan) > 0
    /\ readChan' = Tail(readChan)
    /\ LET packet == Head(readChan) IN
          IF TooShort(packet)
          THEN crPc' = "select" /\ crId' = crId
          ELSE crPc' = "rlock"
               /\ crId' = Uint32LE(SubSeq(packet, 1, MessgSize))
    /\ UNCHANGED << srvVars, hsVars, chVars, evVars, handed, clProc, deadline, sendPc, messgCounter,
                    clSentCounter, rcvPc, rcvBuf, arrived, nArrived, clWriteChan,
                    clWriteClosed, readClosed, cwPc, cwId, set, setMutex,
                    clRecvCounter, clNotSentCounter, clMainPc, faithful,
                    matchCount, missCount, earlyIds >>

(* setMutex.RLock() *)
CrRLock ==
    /\ ClRunning /\ crPc = "rlock"
    /\ CanRLock(setMutex)
    /\ setMutex' = [setMutex EXCEPT !.readers = @ \cup {"cr"}]
    /\ crPc' = "read"
    /\ UNCHANGED << srvVars, hsVars, chVars, evVars, handed, clProc, deadline, sendPc, messgCounter,
                    clSentCounter, rcvPc, rcvBuf, arrived, nArrived, clWriteChan,
                    clWriteClosed, readChan, readClosed, cwPc, cwId, crId, set,
                    clRecvCounter, clNotSentCounter, clMainPc, faithful,
                    matchCount, missCount, earlyIds >>

(* a miss that sends the flow back to the lookup *)
AfterMissRetry == "rlock"

(* after the else branch the flow is at the top of recvLoop again: the      *)
(* packet is gone and the next select runs                                  *)
AfterMiss == "select"

(* value := set[intPacket] ; setMutex.RUnlock() ; with value false the      *)
(* else branch: *packetsRecvButNotSentCounter++                             *)
CrRead ==
    /\ ClRunning /\ crPc = "read"
    /\ setMutex' = [setMutex EXCEPT !.readers = @ \ {"cr"}]
    /\ IF MapLookup(set, crId)
       THEN /\ crPc' = "lock"
            /\ UNCHANGED << clNotSentCounter, missCount, earlyIds >>
       ELSE /\ crPc' = AfterMiss
            /\ clNotSentCounter' = clNotSentCounter + 1
            /\ missCount' = [missCount EXCEPT ![crId] = @ + 1]
            /\ earlyIds' = IF matchCount[crId] = 0 THEN earlyIds \cup {crId}
                           ELSE earlyIds
    /\ UNCHANGED << srvVars, hsVars, chVars, evVars, handed, clProc, deadline, sendPc, messgCounter,
                    clSentCounter, rcvPc, rcvBuf, arrived, nArrived, clWriteChan,
                    clWriteClosed, readChan, readClosed, cwPc, cwId, crId, set,
                    clRecvCounter, clMainPc, faithful, matchCount >>

(* value true: setMutex.Lock() *)
CrLock ==
    /\ ClRunning /\ crPc = "lock"
    /\ CanLock(setMutex)
    /\ setMutex' = [setMutex EXCEPT !.writer = "cr"]
    /\ crPc' = "delete"
    /\ UNCHANGED << srvVars, hsVars, chVars, evVars, handed, clProc, deadline, sendPc, messgCounter,
                    clSentCounter, rcvPc, rcvBuf, arrived, nArrived, clWriteChan,
                    clWriteClosed, readChan, readClosed, cwPc, cwId, crId, set,
                    clRecvCounter, clNotSentCounter, clMainPc, faithful,
                    matchCount, missCount, earlyIds >>

(* delete(set, intPacket) ; setMutex.Unlock() ; *packetsRecvCounter++ *)
CrDelete ==
    /\ ClRunning /\ crPc = "delete"
    /\ set' = MapDelete(set, crId)
    /\ setMutex' = [setMutex EXCEPT !.writer = "none"]
    /\ clRecvCounter' = clRecvCounter + 1
    /\ matchCount' = [matchCount EXCEPT ![crId] = @ + 1]
    /\ crPc' = "select"
    /\ UNCHANGED << srvVars, hsVars, chVars, evVars, handed, clProc, deadline, sendPc, messgCounter,
                    clSentCounter, rcvPc, rcvBuf, arrived, nArrived, clWriteChan,
                    clWriteClosed, readChan, readClosed, cwPc, cwId, crId,
                    clNotSentCounter, clMainPc, faithful, missCount, earlyIds >>

(* ok false: break recvLoop ; the deferred wg.Done() *)
CrExit ==
    /\ ClRunning /\ crPc = "select"
    /\ RecvNotOk(readChan, readClosed)
    /\ crPc' = "done"
    /\ UNCHANGED << srvVars, hsVars, chVars, evVars, handed, clProc, deadline, sendPc, messgCounter,
                    clSentCounter, rcvPc, rcvBuf, arrived, nArrived, clWriteChan,
                    clWriteClosed, readChan, readClosed, cwPc, cwId, crId, set,
                    setMutex, clRecvCounter, clNotSentCounter, clMainPc, faithful,
                    matchCount, missCount, earlyIds >>

(* ---- main ---- *)
(* wg.Wait() returns and the counters are logged *)
ClMainReport ==
    /\ ClRunning /\ clMainPc = "wait"
    /\ sendPc = "done" /\ rcvPc = "done" /\ cwPc = "done" /\ crPc = "done"
    /\ clMainPc' = "done"
    /\ UNCHANGED << srvVars, hsVars, chVars, evVars, handed, clProc, deadline, sendPc, messgCounter,
                    clSentCounter, rcvPc, rcvBuf, arrived, nArrived, clWriteChan,
                    clWriteClosed, readChan, readClosed, cwPc, cwId, crPc, crId,
                    set, setMutex, clRecvCounter, clNotSentCounter, faithful,
                    matchCount, missCount, earlyIds >>

ClNext ==
    \/ ClDeadline
    \/ SendWrite \/ SendRecord \/ SendCount \/ SendTimeout \/ SendFatal
    \/ RcvRead \/ RcvForward \/ RcvTimeout \/ RcvFatal
    \/ CwTake \/ CwLock \/ CwInsert \/ CwExit
    \/ CrTake \/ CrRLock \/ CrRead \/ CrLock \/ CrDelete \/ CrExit
    \/ ClMainReport

(* the client alone; the network and the server are its environment *)
ClInit ==
    /\ ClStart /\ faithful \in BOOLEAN
    /\ ServerInit /\ numConcurrentJobs = 1
    /\ HsStart
    /\ VariantsStart

ClientSpec == ClInit /\ [][ClNext]_vars

(* the steps of the four goroutines and of main: everything but the         *)
(* deadline, the arrival of datagrams and socket errors                     *)
ClProg ==
    \/ SendWrite \/ SendRecord \/ SendCount \/ SendTimeout
    \/ RcvForward \/ RcvTimeout
    \/ CwTake \/ CwLock \/ CwInsert \/ CwExit
    \/ CrTake \/ CrRLock \/ CrRead \/ CrLock \/ CrDelete \/ CrExit
    \/ ClMainReport

(* every goroutine that can take a step eventually takes one *)
ClientFairSpec == ClientSpec /\ WF_vars(ClProg)

(* the client with a server that never replies: no datagram arrives, so    *)
(* receiveMessages only waits for the deadline and countWrittenRecv for the *)
(* close of its channel                                                     *)
QuietNext ==
    \/ ClDeadline
    \/ SendWrite \/ SendRecord \/ SendCount \/ SendTimeout \/ SendFatal
    \/ RcvTimeout \/ RcvFatal
    \/ CwTake \/ CwLock \/ CwInsert \/ CwExit
    \/ CrExit
    \/ ClMainReport

QuietFairSpec == ClInit /\ [][QuietNext]_vars /\ WF_vars(ClProg)

(* ============ the hashing server and the client, one at a time ========== *)

(* either program on a run of its own: the hashing server (with n_jobs 1)   *)
(* takes steps while the client has not been started, and the client (with  *)
(* each reply delivered once) while the server has not been started         *)
PairInit == Init /\ numConcurrentJobs = 1

PairNext ==
    \/ ClStart /\ Next
    \/ ServerInit /\ ClNext

PairSpec == PairInit /\ [][PairNext]_vars

(* ========== the hashing server with a staging channel ========== *)

ChRunning == chProc = "running"

(* a send on recvIn that never waits *)
RecvInSendReadyAlways(ch) == TRUE

(* recvIn <- PacketStruct{...} can proceed: the channel, made with the      *)
(* capacity of the buffer flag, has room                                    *)
RecvInSendReady(ch) == Len(ch) < ChanCap

(* conn.ReadFromUDP returns a datagram *)
ChRecvRead ==
    /\ ChRunning /\ chRecvPc = "loop"
    /\ chReads < MaxChRecv
    /\ \E d \in Datagrams : chBuffer' = ReadFromUDP(d, chReads + 1)
    /\ chReads' = chReads + 1
    /\ chRecvPc' = "send"
    /\ UNCHANGED << srvVars, hsVars, clVars, evVars, chProc, recvIn, recvInClosed,
                    chHashPc, chPacket, chWriteOut, chWriteClosed, chReflPc,
                    chRecvCounter, chSentCounter, chMainPc >>

(* recvIn <- PacketStruct{buffer[:n], addr} ; *packetsRecvCounter++ *)
ChRecvSend ==
    /\ ChRunning /\ chRecvPc = "send"
    /\ RecvInSendReady(recvIn)
    /\ recvIn' = Append(recvIn, chBuffer)
    /\ chBuffer' = NoPacket
    /\ chRecvCounter' = chRecvCounter + 1
    /\ chRecvPc' = "loop"
    /\ UNCHANGED << srvVars, hsVars, clVars, evVars, chProc, recvInClosed,
                    chHashPc, chPacket, chWriteOut, chWriteClosed, chReflPc,
                    chSentCounter, chMainPc, chReads >>

(* the read deadline expires: break receiveSendLoop ; close(recvIn) ; the   *)
(* deferred wg.Done()                                                       *)
ChRecvTimeout ==
    /\ ChRunning /\ chRecvPc = "loop"
    /\ recvInClosed' = TRUE
    /\ chRecvPc' = "done"
    /\ UNCHANGED << srvVars, hsVars, clVars, evVars, chProc, chBuffer, recvIn,
                    chHashPc, chPacket, chWriteOut, chWriteClosed, chReflPc,
                    chRecvCounter, chSentCounter, chMainPc, chReads >>

(* any other read error: log.Fatal *)
ChRecvFatal ==
    /\ ChRunning /\ chRecvPc = "loop"
    /\ chProc' = "fatal"
    /\ UNCHANGED << srvVars, hsVars, clVars, evVars, chRecvPc, chBuffer, recvIn,
                    recvInClosed, chHashPc, chPacket, chWriteOut, chWriteClosed,
                    chReflPc, chRecvCounter, chSentCounter, chMainPc, chReads >>

(* case packet, ok := <-recvIn with ok true: the request is built and       *)
(* client.Do(request) is called                                             *)
ChHashTake ==
    /\ ChRunning /\ chHashPc = "select"
    /\ Len(recvIn) > 0
    /\ chPacket' = Head(recvIn)
    /\ recvIn' = Tail(recvIn)
    /\ chHashPc' = "call"
    /\ UNCHANGED << srvVars, hsVars, clVars, evVars, chProc, chRecvPc, chBuffer,
                    recvInClosed, chWriteOut, chWriteClosed, chReflPc,
                    chRecvCounter, chSentCounter, chMainPc, chReads >>

(* ok false: break hashLoop *)
ChHashExit ==
    /\ ChRunning /\ chHashPc = "select"
    /\ RecvNotOk(recvIn, recvInClosed)
    /\ chHashPc' = "close"
    /\ UNCHANGED << srvVars, hsVars, clVars, evVars, chProc, chRecvPc, chBuffer,
                    recvIn, recvInClosed, chPacket, chWriteOut, chWriteClosed,
                    chReflPc, chRecvCounter, chSentCounter, chMainPc, chReads >>

(* client.Do returns: with an error, an unreadable body or a body that is   *)
(* no JSON string, log.Fatal; otherwise the hash is appended to the payload *)
ChHashResponse ==
    /\ ChRunning /\ chHashPc = "call"
    /\ \/ /\ chProc' = "fatal"
          /\ UNCHANGED << chPacket, chHashPc >>
       \/ /\ \E h \in HashValues :
                chPacket' = [chPacket EXCEPT !.Packet = AppendHash(@, h),
                                             !.gHash = h]
          /\ chHashPc' = "send"
          /\ UNCHANGED chProc
    /\ UNCHANGED << srvVars, hsVars, clVars, evVars, chRecvPc, chBuffer,
                    recvIn, recvInClosed, chWriteOut, chWriteClosed,
                    chReflPc, chRecvCounter, chSentCounter, chMainPc, chReads >>

(* writeOut <- packet *)
ChHashSend ==
    /\ ChRunning /\ chHashPc = "send"
    /\ Len(chWriteOut) < ChanCap
    /\ chWriteOut' = Append(chWriteOut, chPacket)
    /\ chPacket' = NoPacket
    /\ chHashPc' = "select"
    /\ UNCHANGED << srvVars, hsVars, clVars, evVars, chProc, chRecvPc, chBuffer,
                    recvIn, recvInClosed, chWriteClosed, chReflPc,
                    chRecvCounter, chSentCounter, chMainPc, chReads >>

(* close(writeOut) *)
ChHashClose ==
    /\ ChRunning /\ chHashPc = "close"
    /\ chWriteClosed' = TRUE
    /\ chHashPc' = "shutdown"
    /\ UNCHANGED << srvVars, hsVars, clVars, evVars, chProc, chRecvPc, chBuffer,
                    recvIn, recvInClosed, chPacket, chWriteOut, chReflPc,
                    chRecvCounter, chSentCounter, chMainPc, chReads >>

(* the shutdown request: log.Fatal on an error, else the body is logged and *)
(* hashPacket returns                                                       *)
ChHashShutdown ==
    /\ ChRunning /\ chHashPc = "shutdown"
    /\ \/ chProc' = "fatal" /\ UNCHANGED chHashPc
       \/ chHashPc' = "done" /\ UNCHANGED chProc
    /\ UNCHANGED << srvVars, hsVars, clVars, evVars, chRecvPc, chBuffer,
                    recvIn, recvInClosed, chPacket, chWriteOut, chWriteClosed,
                    chReflPc, chRecvCounter, chSentCounter, chMainPc, chReads >>

(* reflectPacket: a packet from writeOut is written to the client and       *)
(* counted when the write returned no error                                 *)
ChReflectWrite ==
    /\ ChRunning /\ chReflPc = "select"
    /\ Len(chWriteOut) > 0
    /\ chWriteOut' = Tail(chWriteOut)
    /\ \E ok \in BOOLEAN : chSentCounter' = CountSent(chSentCounter, ok)
    /\ UNCHANGED << srvVars, hsVars, clVars, evVars, chProc, chRecvPc, chBuffer,
                    recvIn, recvInClosed, chHashPc, chPacket, chWriteClosed,
                    chReflPc, chRecvCounter, chMainPc, chReads >>

(* ok false: break reflectLoop *)
ChReflectExit ==
    /\ ChRunning /\ chReflPc = "select"
    /\ RecvNotOk(chWriteOut, chWriteClosed)
    /\ chReflPc' = "done"
    /\ UNCHANGED << srvVars, hsVars, clVars, evVars, chProc, chRecvPc, chBuffer,
                    recvIn, recvInClosed, chHashPc, chPacket, chWriteOut,
                    chWriteClosed, chRecvCounter, chSentCounter, chMainPc,
                    chReads >>

(* wg.Wait() returns and the counters are logged *)
ChMainReport ==
    /\ ChRunning /\ chMainPc = "wait"
    /\ chRecvPc = "done" /\ chHashPc = "done" /\ chReflPc = "done"
    /\ chMainPc' = "done"
    /\ UNCHANGED << srvVars, hsVars, clVars, evVars, chProc, chRecvPc, chBuffer,
                    recvIn, recvInClosed, chHashPc, chPacket, chWriteOut,
                    chWriteClosed, chReflPc, chRecvCounter, chSentCounter,
                    chReads >>

ChNext ==
    \/ ChRecvRead \/ ChRecvSend \/ ChRecvTimeout \/ ChRecvFatal
    \/ ChHashTake \/ ChHashExit \/ ChHashResponse \/ ChHashSend
    \/ ChHashClose \/ ChHashShutdown
    \/ ChReflectWrite \/ ChReflectExit
    \/ ChMainReport

ChInit ==
    /\ ChStart /\ EvStart
    /\ ServerInit /\ numConcurrentJobs = 1
    /\ HsStart
    /\ ClStart /\ faithful = TRUE

ChanSpec == ChInit /\ [][ChNext]_vars

(* ========== the echo server with a goroutine for each packet ========== *)

EvRunning == evProc = "running"

(* ReadFromUDP returns a datagram: packetsRecvCounter++ ; wg.Add(1) ;       *)
(* go reflectPacket(...)                                                    *)
EvRead ==
    /\ EvRunning /\ evPc = "loop"
    /\ evRecvCounter < MaxEcho
    /\ evRecvCounter' = evRecvCounter + 1
    /\ evWg' = evWg + 1
    /\ evFlows' = evFlows \cup {[id |-> evRecvCounter + 1, pc |-> "write", tmp |-> 0]}
    /\ UNCHANGED << srvVars, hsVars, clVars, chVars, evProc, evPc, evSentCounter,
                    evWrites, evReported >>

(* the read deadline expires: break receiveSendLoop *)
EvTimeout ==
    /\ EvRunning /\ evPc = "loop"
    /\ evPc' = "wait"
    /\ UNCHANGED << srvVars, hsVars, clVars, chVars, evProc, evRecvCounter,
                    evSentCounter, evFlows, evWg, evWrites, evReported >>

(* any other read error: log.Fatal *)
EvFatal ==
    /\ EvRunning /\ evPc = "loop"
    /\ evProc' = "fatal"
    /\ UNCHANGED << srvVars, hsVars, clVars, chVars, evPc, evRecvCounter,
                    evSentCounter, evFlows, evWg, evWrites, evReported >>

(* conn.WriteToUDP(messg, addr): on an error the flow logs and returns (the *)
(* deferred wg.Done()), otherwise it goes on to the increment               *)
EvReflectWrite ==
    /\ EvRunning
    /\ \E f \in evFlows :
          /\ f.pc = "write"
          /\ \/ /\ evFlows' = (evFlows \ {f}) \cup {[f EXCEPT !.pc = "load"]}
                /\ evWrites' = evWrites + 1
                /\ UNCHANGED evWg
             \/ /\ evFlows' = evFlows \ {f}
                /\ evWg' = evWg - 1
                /\ UNCHANGED evWrites
    /\ UNCHANGED << srvVars, hsVars, clVars, chVars, evProc, evPc, evRecvCounter,
                    evSentCounter, evReported >>

(* *packetsSentCounter++, first half: the counter is read *)
EvReflectLoad ==
    /\ EvRunning
    /\ \E f \in evFlows :
          /\ f.pc = "load"
          /\ evFlows' = (evFlows \ {f}) \cup
                            {[f EXCEPT !.pc = "store", !.tmp = evSentCounter]}
    /\ UNCHANGED << srvVars, hsVars, clVars, chVars, evProc, evPc, evRecvCounter,
                    evSentCounter, evWg, evWrites, evReported >>

(* a store of the value read plus two *)
IncrementedTwice(v) == v + 2

(* the value the increment writes back: the one it read, plus one *)
Incremented(v) == v + 1

(* *packetsSentCounter++, second half: the counter is written; the flow     *)
(* returns and the deferred wg.Done() runs                                  *)
EvReflectStore ==
    /\ EvRunning
    /\ \E f \in evFlows :
          /\ f.pc = "store"
          /\ evSentCounter' = Incremented(f.tmp)
          /\ evFlows' = evFlows \ {f}
    /\ evWg' = evWg - 1
    /\ UNCHANGED << srvVars, hsVars, clVars, chVars, evProc, evPc, evRecvCounter,
                    evWrites, evReported >>

(* wg.Wait() returns and the counters are logged *)
EvReport ==
    /\ EvRunning /\ evPc = "wait"
    /\ WaitReturns(evWg)
    /\ evReported' = evSentCounter
    /\ evPc' = "done"
    /\ UNCHANGED << srvVars, hsVars, clVars, chVars, evProc, evRecvCounter,
                    evSentCounter, evFlows, evWg, evWrites >>

EvNext ==
    \/ EvRead \/ EvTimeout \/ EvFatal
    \/ EvReflectWrite \/ EvReflectLoad \/ EvReflectStore
    \/ EvReport

EvInit ==
    /\ EvStart /\ ChStart
    /\ ServerInit /\ numConcurrentJobs = 1
    /\ HsStart
    /\ ClStart /\ faithful = TRUE

EchoSpec == EvInit /\ [][EvNext]_vars

(* ======================= properties ======================= *)

(* a packet that came from a datagram: it has the sender's address *)
FromDatagram(p) == p.Addr # NilAddr /\ p.seq \in 1..packetsRecvCounter

(* every exchange in flight is waiting for the Hashing Service (a stall) and *)
(* hashPacket is blocked on the token send                                  *)
Stalled ==
    /\ hashPc = "acquire"
    /\ tokens = numConcurrentJobs
    /\ Cardinality(exch) = numConcurrentJobs
    /\ \A e \in exch : e.pc = "await"

(* C1: the number of backend exchanges started and not finished (an exchange *)
(* is in flight from its go statement to its last statement) never exceeds  *)
(* n_jobs, for every n_jobs in 1..MaxJobs, and hashPacket cannot pass the   *)
(* token send while n_jobs tokens are checked out.                          *)
C1_AdmissionBound ==
    /\ Cardinality(exch) <= numConcurrentJobs
    /\ tokens <= numConcurrentJobs
    /\ (hashPc = "acquire" /\ tokens = numConcurrentJobs => ~ENABLED HashAcquire)

(* C1 witness: n_jobs exchanges in flight and hashPacket blocked with a packet *)
C1_Witness ==
    /\ Cardinality(exch) = numConcurrentJobs
    /\ tokens = numConcurrentJobs
    /\ hashPc = "acquire" /\ FromDatagram(held)

(* C2: every exchange returns its token when it ends, on every exit path:   *)
(* whenever no exchange is in flight no token is checked out.               *)
C2_TokenReturned == exch = {} => tokens = 0

(* C3: a real packet hashPacket has pulled is eventually admitted, given     *)
(* that every exchange in flight eventually ends and the process keeps      *)
(* running.                                                                 *)
C3_EventuallyAdmitted ==
    (hashPc = "acquire") ~> (hashPc # "acquire" \/ ~Running)

(* C4: once the read deadline has expired, Receiver, Dispatcher and          *)
(* Transmitter terminate and main reports, given that every exchange ends   *)
(* and the shutdown request is answered (no answer: the process panics).    *)
C4_ServerTerminates ==
    (recvPc = "signal") ~> (mainPc = "done" \/ ~Running)

(* C5 as stated: after the done signal is on doneChan no exchange is started *)
(* for a packet that had not acquired a token before the signal.            *)
C5_NoAdmissionAfterSignal == admittedPost = {}

(* the packet of the loop iteration hashPacket was in when the done signal  *)
(* was sent: the one it held, or the one it then takes with the pool.Get it *)
(* was about to call; none when it was at its select                        *)
IterationPacket ==
    IF heldAtSignal = -1 THEN pulledPost ELSE {heldAtSignal} \ {0}

(* C5 amended: after the done signal hashPacket starts at most one exchange, *)
(* for the packet of the loop iteration it was in when the signal was sent  *)
(* (past its select: holding a packet and waiting for a token, or about to  *)
(* call pool.Get); it takes no other packet from the pool, and every packet *)
(* forwarded to the Transmitter was admitted before the signal or is that   *)
(* packet.                                                                  *)
C5_OnlyHeldPacketAfterSignal ==
    /\ (heldAtSignal # -1 => pulledPost = {})
    /\ Cardinality(pulledPost) <= 1
    /\ admittedPost \subseteq IterationPacket
    /\ \A i \in 1..Len(writeChan) :
          /\ writeChan[i].seq \in submitted
          /\ writeChan[i].seq \in admittedPost => writeChan[i].seq \in IterationPacket

(* C5 witness: the packet held at the signal was admitted afterwards and is *)
(* forwarded to the Transmitter                                             *)
C5_Witness ==
    /\ DoneSignalled
    /\ \E i \in 1..Len(writeChan) : writeChan[i].seq \in admittedPost

(* C6: the shutdown request is sent at most once, exactly once by the time   *)
(* hashPacket returns, and only when every admitted exchange has finished   *)
(* and writeOut is closed; from then on no exchange (hence no hash request) *)
(* exists.                                                                  *)
C6_ShutdownOnceAfterDrain ==
    /\ shutdownReqs <= 1
    /\ (hashPc = "done" => shutdownReqs = 1)
    /\ (shutdownReqs >= 1 =>
          /\ exch = {} /\ wgBackend = 0
          /\ writeClosed
          /\ hashPc \in {"shutdownAwait", "done"})

(* C6 witness: the shutdown request went out after exchanges had run *)
C6_Witness ==
    /\ shutdownReqs = 1 /\ hashPc = "done"
    /\ Cardinality(submitted) = MaxRecv
    /\ packetsSentCounter > 0

C8_SubmittedExactlyOnce ==
    /\ ~dupSubmit
    /\ submitted \subseteq pulled
    /\ pulled \ submitted = IF hashPc = "acquire" THEN {held.seq} ELSE {}
    /\ \A e1, e2 \in exch : e1.pkt.seq = e2.pkt.seq => e1 = e2

(* C8 witness: the packet held when the done signal arrived was submitted   *)
C8_Witness ==
    /\ heldAtSignal # 0 /\ heldAtSignal \in submitted
    /\ pulled = submitted /\ Cardinality(pulled) >= 2

(* C9: a placeholder from pool.Get is no work: hashPacket never goes to the  *)
(* token send with it, and no exchange and no queued packet carries it.     *)
C9_PlaceholderIsNoWork ==
    /\ (hashPc = "acquire" => FromDatagram(held))
    /\ (held = NewPacketStruct => hashPc # "acquire")
    /\ \A e \in exch : FromDatagram(e.pkt)
    /\ \A i \in 1..Len(writeChan) : FromDatagram(writeChan[i])
    /\ tokens >= Cardinality(exch)
    /\ submitted \subseteq 1..packetsRecvCounter

(* C9 witness: pool.Get returned a placeholder while an exchange was in     *)
(* flight, and hashPacket is back at its select                             *)
C9_Witness ==
    /\ held = NewPacketStruct /\ hashPc = "select"
    /\ exch # {}

(* C10: every packet queued for the Transmitter carries the bytes read from  *)
(* its own datagram followed by the 8 bytes the Hashing Service answered to *)
(* its own request, and the address its datagram came from.                 *)
C10_ReplyIsOwnPayloadAndHash ==
    \A i \in 1..Len(writeChan) :
        LET p == writeChan[i] IN
        /\ Len(p.gHash) = HashLen
        /\ p.Packet = SubSeq(p.gPayload, 1, Min(Len(p.gPayload), BufSize)) \o p.gHash
        /\ p.Addr = p.gAddr
        /\ \E d \in Datagrams : d.payload = p.gPayload /\ d.addr = p.gAddr

(* C10 witness: two packets from different senders with different answers,  *)
(* one queued and one about to be queued                                    *)
C10_Witness ==
    /\ Len(writeChan) >= 1
    /\ \E e \in exch :
          /\ e.pc = "send"
          /\ e.pkt.gHash # writeChan[1].gHash
          /\ e.pkt.gAddr # writeChan[1].gAddr

(* FNV-1a 64 of "", "a" and "foobar" as published with the algorithm, the   *)
(* most significant byte first                                              *)
KnownHash(p) ==
    CASE p = <<>> -> << 203, 242, 156, 228, 132, 34, 35, 37 >>
      [] p = <<97>> -> << 175, 99, 220, 76, 134, 1, 236, 140 >>
      [] p = <<102, 111, 111, 98, 97, 114>> -> << 133, 148, 65, 113, 247, 57, 103, 232 >>

(* the response the service owes to a request for p *)
OwnHashBody(p) == JSONEncode(PutUint64BE(FNV1a64(p)))

(* C11: a hash request handled while no other request is in progress is     *)
(* answered with the FNV-1a 64-bit hash of exactly the bytes of its payload *)
(* (the published value for that payload); sequential requests with the     *)
(* same payload get the same answer, and the accumulator is back at the     *)
(* offset basis whenever no handler is running.                             *)
C11_SequentialHashIsFnv1a ==
    /\ \A r \in responses : r.alone =>
          /\ r.body = OwnHashBody(r.p)
          /\ JSONUnmarshal(r.body) = [err |-> FALSE, val |-> KnownHash(r.p)]
    /\ \A r1, r2 \in responses :
          r1.alone /\ r2.alone /\ r1.p = r2.p => r1.body = r2.body
    /\ (handlers = {} => fnvHash = OffsetBasis64)

(* C11 witness: two requests for "foobar" handled one after the other *)
C11_Witness ==
    \E r1, r2 \in responses :
        /\ r1.id # r2.id /\ r1.alone /\ r2.alone
        /\ r1.p = r2.p /\ Len(r1.p) = 6
        /\ handlers = {}

(* C12: every response of the service, also of handlers that ran            *)
(* concurrently, is the hash of exactly the bytes of its own request.       *)
C12_ConcurrentHashIsOwn ==
    \A r \in responses : r.body = OwnHashBody(r.p)

(* C13: a packet whose exchange failed (client.Do or ReadAll returned an    *)
(* error, or the response was no encoded hash) is in no stage afterwards:   *)
(* not on the Transmitter's queue, not written, not in the pool, not held   *)
(* by hashPacket and in no exchange; and the step on which an exchange      *)
(* fails leaves the process running.                                        *)
C13_FailedPacketDropped ==
    /\ [](/\ failed \cap (queued \cup attempted) = {}
          /\ \A i \in 1..Len(writeChan) : writeChan[i].seq \notin failed
          /\ \A p \in pool : p.seq \notin failed
          /\ \A e \in exch : e.pkt.seq \notin failed
          /\ held.seq \notin failed)
    /\ [][failed' # failed => proc = "running" /\ proc' = "running"]_vars

(* C13 witness: one exchange failed, another packet was reflected and the   *)
(* server ran to its end                                                    *)
C13_Witness ==
    /\ failed # {} /\ packetsSentCounter > 0
    /\ mainPc = "done" /\ proc = "running"

(* C20: reflectPacket has returned only if writeOut is closed and empty;    *)
(* every packet sent on writeOut is in the channel or was taken, once, and  *)
(* given its write attempt, so that none is left when reflectPacket has     *)
(* returned.                                                                *)
C20_TransmitterDrains ==
    /\ (reflPc = "done" => writeClosed /\ writeChan = <<>> /\ attempted = queued)
    /\ ~dupAttempt
    /\ attempted \subseteq queued
    /\ queued \ attempted = {writeChan[i].seq : i \in 1..Len(writeChan)}
    /\ Cardinality(queued \ attempted) = Len(writeChan)
    /\ packetsSentCounter <= Cardinality(attempted)

(* C20 witness: reflectPacket returned after one write that succeeded and   *)
(* one that failed                                                          *)
C20_Witness ==
    /\ reflPc = "done"
    /\ Cardinality(attempted) = 2 /\ packetsSentCounter = 1

(* C21: every packet reflectPacket takes gets one WriteToUDP call, never a  *)
(* second one; a call that fails leaves the sent counter, the process and   *)
(* the Transmitter's loop as they are, a call that succeeds adds exactly    *)
(* one to the counter; and with a packet queued the Transmitter can take it *)
(* whatever happened to the writes before.                                  *)
C21_FailedWriteSkipped ==
    /\ [](/\ packetsSentCounter + writeErrs = Cardinality(attempted)
          /\ ~dupAttempt
          /\ (Running /\ reflPc = "select" /\ Len(writeChan) > 0
                 => ENABLED ReflectWrite))
    /\ [][(writeErrs' # writeErrs =>
               /\ writeErrs' = writeErrs + 1
               /\ packetsSentCounter' = packetsSentCounter
               /\ proc' = proc /\ Running' /\ reflPc' = "select"
               /\ writeChan' = Tail(writeChan))
           /\
           (packetsSentCounter' # packetsSentCounter =>
               /\ packetsSentCounter' = packetsSentCounter + 1
               /\ writeErrs' = writeErrs
               /\ attempted' = attempted \cup {Head(writeChan).seq})]_vars

(* C21 witness: a write has failed, nothing is counted, and the next packet *)
(* is queued with the Transmitter at its select                             *)
C21_Witness ==
    /\ writeErrs = 1 /\ packetsSentCounter = 0
    /\ Running /\ reflPc = "select" /\ Len(writeChan) > 0

(* C22: the Receiver leaves receiveSendLoop only by the step of the read    *)
(* deadline; once out it can always send the done signal, sends it once,    *)
(* has returned exactly when the signal was sent, and from the moment it    *)
(* left the loop nothing is put into the pool or counted as received.       *)
C22_ReceiverEndsOnTimeout ==
    /\ [](/\ doneSignals = (IF recvPc = "done" THEN 1 ELSE 0)
          /\ doneChan <= doneSignals
          /\ (Running /\ recvPc = "signal" => ENABLED RecvSignal)
          /\ (recvPc # "loop" => ~ENABLED RecvRead))
    /\ [][/\ (recvPc = "loop" /\ recvPc' # "loop" => RecvTimeout)
           /\ (recvPc # "loop" =>
                  /\ recvPc' \in {recvPc, "done"}
                  /\ packetsRecvCounter' = packetsRecvCounter
                  /\ pool' \subseteq pool)]_vars

(* C22 witness: the signal was sent after two datagrams were staged, and    *)
(* one of them is still in the pool                                         *)
C22_Witness ==
    /\ recvPc = "done" /\ doneSignals = 1
    /\ packetsRecvCounter = 2 /\ pool # {}

(* C23: once a read has failed with an error that is no timeout the process *)
(* has ended and no goroutine takes another step: the Receiver is where it  *)
(* was in its loop (no second read, no done signal), and no shutdown        *)
(* request has gone or will go to the Hashing Service.                      *)
C23_ReadErrorAborts ==
    /\ (proc = "fatal") = (readErrs > 0)
    /\ readErrs > 0 =>
          /\ readErrs = 1
          /\ recvPc = "loop"
          /\ doneSignals = 0 /\ doneChan = 0
          /\ hashPc \in {"select", "get", "acquire"}
          /\ shutdownReqs = 0
          /\ mainPc = "wait"
          /\ ~ENABLED Next

(* C23 witness: the process aborted with a packet staged, an exchange in    *)
(* flight and a reply queued                                                *)
C23_Witness ==
    /\ readErrs = 1 /\ proc = "fatal"
    /\ pool # {} /\ exch # {} /\ Len(writeChan) > 0

(* the seqs of the packets on writeOut *)
OnWriteChan == {writeChan[i].seq : i \in 1..Len(writeChan)}

(* the number of places that hold the packet with ordinal s: the pool,      *)
(* hashPacket between pool.Get and the go statement, an exchange that has   *)
(* not yet sent it on, and each slot of writeOut                            *)
Holders(s) ==
    Cardinality({p \in pool : p.seq = s})
    + (IF hashPc = "acquire" /\ held.seq = s THEN 1 ELSE 0)
    + Cardinality({e \in exch : e.pkt.seq = s /\ e.pc \in {"await", "send"}})
    + Cardinality({i \in 1..Len(writeChan) : writeChan[i].seq = s})

(* C26: every packet read is in at most one place at a time: in exactly one *)
(* from the moment hashPacket pulled it until its exchange failed or        *)
(* reflectPacket took it, and in none afterwards; reflectPacket takes each  *)
(* packet at most once, so at most one reply is written per datagram read.  *)
C26_OneHolder ==
    /\ \A s \in 1..packetsRecvCounter :
          /\ Holders(s) <= 1
          /\ (s \in pulled /\ s \notin failed \cup attempted => Holders(s) = 1)
          /\ (s \in failed \cup attempted => Holders(s) = 0)
    /\ \A p \in pool : p.seq \in (1..packetsRecvCounter) \ pulled
    /\ ~dupAttempt
    /\ attempted \subseteq 1..packetsRecvCounter
    /\ packetsSentCounter <= Cardinality(attempted)
    /\ Cardinality(attempted) <= packetsRecvCounter

(* C26 witness: of two datagrams read one was reflected and the other is    *)
(* with its exchange, about to be queued                                    *)
C26_Witness ==
    /\ packetsRecvCounter = 2 /\ packetsSentCounter = 1
    /\ \E e \in exch : e.pc = "send" /\ e.pkt.seq \notin attempted

(* hashPacket has received the done signal: it was sent and is no longer    *)
(* on doneChan                                                              *)
DoneObserved == doneChan < doneSignals

(* C27: from the moment hashPacket has received the done signal it is out   *)
(* of its loop: pool.Get and the token send cannot happen, no step takes a  *)
(* packet from the pool, acquires a token or adds an exchange; so a packet  *)
(* in the pool then was never pulled, and is never submitted, queued or     *)
(* written.                                                                 *)
C27_NothingAfterDoneObserved ==
    /\ [](DoneObserved =>
            /\ hashPc \notin {"select", "get", "acquire"}
            /\ ~ENABLED HashDefault /\ ~ENABLED HashGet /\ ~ENABLED HashAcquire
            /\ \A p \in pool :
                  p.seq \notin pulled \cup submitted \cup queued \cup attempted)
    /\ [][DoneObserved =>
            /\ DoneObserved'
            /\ pulled' = pulled /\ submitted' = submitted
            /\ pool' \subseteq pool
            /\ tokens' <= tokens /\ wgBackend' <= wgBackend
            /\ {x.pkt.seq : x \in exch'} \subseteq {x.pkt.seq : x \in exch}]_vars

(* C27 witness: the server has finished and a packet that was staged is     *)
(* still in the pool, never pulled                                          *)
C27_Witness ==
    /\ DoneObserved /\ mainPc = "done"
    /\ \E p \in pool : p.seq \notin pulled
    /\ packetsSentCounter = 1

(* C28: the wait group counts exactly the exchanges that have not returned; *)
(* hashPacket is at close(writeOut) or beyond only with no exchange left,   *)
(* and once writeOut is closed there is no exchange, none can be started    *)
(* and no send on writeOut can happen (the send that would panic is never   *)
(* reached).                                                                *)
C28_NoSendAfterClose ==
    /\ wgBackend = Cardinality(exch)
    /\ (hashPc \in {"close", "shutdown", "shutdownAwait", "done"} =>
          exch = {} /\ wgBackend = 0)
    /\ (writeClosed =>
          /\ exch = {}
          /\ hashPc \in {"shutdown", "shutdownAwait", "done"}
          /\ ~ENABLED HashAcquire
          /\ ~ENABLED ExchSend
          /\ queued \subseteq attempted \cup OnWriteChan)
    /\ (hashPc \in {"select", "get", "acquire", "wait"} => ~writeClosed)

(* C28 witness: writeOut was closed after two exchanges had run, with the   *)
(* packet of the last one still buffered                                    *)
C28_Witness ==
    /\ writeClosed /\ Cardinality(submitted) = 2
    /\ Len(writeChan) = 1 /\ Running

(* C29: when client.Do fails for the shutdown request hashPacket still      *)
(* returns normally: no panic, writeOut is closed, and the process lives on *)
(* to report its counters.                                                  *)
C29_ShutdownFailureTolerated ==
    shutdownErrs > 0 => proc = "running" /\ writeClosed

(* hashPacket is past its select and cannot step: it waits for a token      *)
(* while every token is checked out                                         *)
BlockedOnToken == hashPc = "acquire" /\ tokens = numConcurrentJobs

(* C30 as stated: after the done signal at most one packet is admitted, one *)
(* that hashPacket had pulled from the pool before the signal was sent; and *)
(* hashPacket blocked on the token send does not receive the signal.        *)
C30_AtMostOneAlreadyPulled ==
    /\ Cardinality(admittedPost) <= 1
    /\ admittedPost \cap pulledPost = {}
    /\ (BlockedOnToken => ~ENABLED HashDone)

(* C30 amended: after the done signal at most one packet is admitted, the   *)
(* packet of the loop iteration hashPacket was in when the signal was sent: *)
(* it held that packet already, or it had passed its select and pulls the   *)
(* packet with the pool.Get that follows; no other packet is pulled.  Past  *)
(* its select hashPacket does not receive the signal, and blocked on the    *)
(* token send it takes no step at all, also with the signal on doneChan.    *)
C30_AtMostOneOfIteration ==
    /\ Cardinality(admittedPost) <= 1
    /\ admittedPost \subseteq IterationPacket
    /\ Cardinality(pulledPost) <= 1
    /\ (pulledPost # {} => heldAtSignal = -1)
    /\ (hashPc \in {"get", "acquire"} => ~ENABLED HashDone)
    /\ (BlockedOnToken =>
          /\ ~ENABLED HashDone /\ ~ENABLED HashDefault
          /\ ~ENABLED HashGet /\ ~ENABLED HashAcquire)

(* C30 witness: hashPacket has left its loop after admitting the packet it  *)
(* pulled once the signal was on doneChan                                   *)
C30_Witness ==
    /\ DoneObserved
    /\ pulledPost # {} /\ admittedPost = pulledPost

(* the request is one the service is to refuse: a path that is neither     *)
(* endpoint, or a method other than GET                                     *)
Refused(r) == r.path \notin {"/hash", "/shutdown"} \/ r.method # "GET"

(* C24: a request with another path or another method is answered 404, its  *)
(* handler computes no hash, and it does not cancel the context.            *)
C24_RefusedWith404 ==
    /\ \A r \in replies : Refused(r) => r.status = 404
    /\ \A h \in handlers :
          Refused(h) => /\ h.pc \notin {"load", "store", "sum", "reset"}
                        /\ h.id \notin cancelledBy
    /\ \A r \in replies : Refused(r) => r.id \notin cancelledBy

(* C25: when the process of the service has ended no request is left in     *)
(* progress: every handler running when shutdown began has sent its         *)
(* response, the handler of the shutdown request included; and from the     *)
(* moment Shutdown has been called no request is accepted.                  *)
C25_DrainedBeforeExit ==
    /\ (hsMainPc = "exited" => handlers = {})
    /\ (hsMainPc # "select" => ~ENABLED HsAccept)

(* C34: the packets sent on writeOut are packets for which an exchange was  *)
(* started, and those are packets the Receiver staged, each with one        *)
(* exchange at most: packets on the queue <= exchanges started <= packets   *)
(* staged.  The packets written to the client are packets taken from the    *)
(* queue, so at every state, and when main reports, sent <= received.       *)
C34_PipelineCounts ==
    /\ queued \subseteq submitted
    /\ submitted \subseteq pulled
    /\ pulled \subseteq 1..packetsRecvCounter
    /\ ~dupSubmit /\ Cardinality({e.pkt.seq : e \in exch}) = Cardinality(exch)
    /\ Cardinality(queued) <= Cardinality(submitted)
    /\ Cardinality(submitted) <= packetsRecvCounter
    /\ attempted \subseteq queued /\ ~dupAttempt
    /\ packetsSentCounter + writeErrs = Cardinality(attempted)
    /\ Len(writeChan) + Cardinality(attempted) = Cardinality(queued)
    /\ packetsSentCounter <= Cardinality(queued)
    /\ mainPc = "done" => packetsSentCounter <= packetsRecvCounter

(* C34 witness: the server has terminated with two packets staged, an       *)
(* exchange started for both, one of them placed on the queue and written   *)
(* to the client                                                            *)
C34_Witness ==
    /\ mainPc = "done"
    /\ packetsRecvCounter = 2 /\ Cardinality(submitted) = 2
    /\ Cardinality(queued) = 1 /\ packetsSentCounter = 1

(* C32: the reported totals are exact.  In the hashing server the received *)
(* counter is the number of datagrams recvPacket has staged and the sent    *)
(* counter is the number of writes to the client that returned no error; in *)
(* the client the sent counter is the number of ids sent on writeOut (one   *)
(* less only between the channel send and the increment).  main reports     *)
(* only when every flow that writes a counter has ended, so the values it   *)
(* logs are the final ones.                                                 *)
C32_CountersExact ==
    /\ packetsRecvCounter = staged
    /\ ~dupAttempt
    /\ packetsSentCounter = Cardinality(attempted) - writeErrs
    /\ mainPc = "done" =>
          /\ recvPc = "done" /\ hashPc = "done" /\ reflPc = "done"
          /\ exch = {} /\ writeChan = <<>>
    /\ clSentCounter = Len(handed) - (IF sendPc = "count" THEN 1 ELSE 0)
    /\ clMainPc = "done" =>
          /\ sendPc = "done" /\ rcvPc = "done" /\ cwPc = "done" /\ crPc = "done"
          /\ clSentCounter = Len(handed)

(* C32 witness: the server has reported after staging two datagrams, one    *)
(* write to the client succeeded and one returned an error                  *)
C32_Witness ==
    /\ mainPc = "done"
    /\ packetsRecvCounter = 2 /\ staged = 2
    /\ packetsSentCounter = 1 /\ writeErrs = 1

(* C37: serv.Shutdown is called at most once, whatever the number of        *)
(* shutdown requests, and it is called (main is ready to call it) once a    *)
(* handler has called cancel().  A cancel() after the first changes         *)
(* nothing: ctx stays done, main is where it was and Shutdown is not called *)
(* again.                                                                   *)
C37_ShutdownOnce ==
    /\ [](shutdownCalls <= 1)
    /\ [](shutdownCalls = 1 => hsCtxDone /\ cancelledBy # {} /\ ~hsListening)
    /\ [](cancelledBy # {} => hsCtxDone)
    /\ [](cancelledBy # {} /\ hsMainPc = "select" => ENABLED HsMainShutdown)
    /\ [](cancelledBy # {} /\ hsMainPc # "select" => shutdownCalls = 1)
    /\ [][cancelledBy' # cancelledBy /\ cancelledBy # {} =>
            /\ hsCtxDone' = hsCtxDone
            /\ hsMainPc' = hsMainPc
            /\ hsListening' = hsListening
            /\ shutdownCalls' = shutdownCalls]_vars

(* C37 witness: two handlers have called cancel() and Shutdown has been     *)
(* called once                                                              *)
C37_Witness ==
    /\ Cardinality(cancelledBy) = 2
    /\ shutdownCalls = 1

(* recvPacket holds a packet it has read and recvIn is full *)
RecvBlocked == chRecvPc = "send" /\ Len(recvIn) = ChanCap

(* C38: with recvIn full, recvPacket waits at its channel send: it can      *)
(* neither send nor read the next datagram nor take its deadline.  While    *)
(* hashPacket stays in its backend call, nothing in recvPacket changes and  *)
(* no datagram is read; only hashPacket taking a packet from recvIn ends    *)
(* the wait.                                                                *)
C38_ReceiverCoupledToBackend ==
    /\ [](Len(recvIn) <= ChanCap)
    /\ [](ChRunning /\ RecvBlocked =>
            /\ ~ENABLED ChRecvSend
            /\ ~ENABLED ChRecvRead
            /\ ~ENABLED ChRecvTimeout)
    /\ [][RecvBlocked /\ chHashPc = "call" /\ chHashPc' = "call" =>
            /\ chReads' = chReads
            /\ recvIn' = recvIn
            /\ chRecvPc' = chRecvPc /\ chBuffer' = chBuffer
            /\ chRecvCounter' = chRecvCounter]_vars
    /\ [][RecvBlocked /\ ~RecvBlocked' =>
            chHashPc = "select" /\ chHashPc' = "call"]_vars
    /\ [][chReads' # chReads => chRecvPc = "loop" /\ chBuffer = NoPacket]_vars

(* C38 witness: recvIn is full, hashPacket is in its backend call and       *)
(* recvPacket waits with one more packet, while datagrams are still to come *)
C38_Witness ==
    /\ ChRunning /\ RecvBlocked
    /\ chHashPc = "call"
    /\ chReads = ChanCap + 2 /\ chReads < MaxChRecv
    /\ chRecvCounter = ChanCap + 1

(* C39: the reflectPacket goroutines increment the shared sent counter      *)
(* with a read and a write that other goroutines' increments can come       *)
(* between; the counter is never more than the number of writes that        *)
(* returned no error.  handleUDPConnection logs it only when the wait group *)
(* is at zero, that is when every reflectPacket goroutine has returned, and *)
(* what it logs is then the final value: at most the number of successful   *)
(* writes, and at least one if there was any.                               *)
C39_SentCounterBestEffort ==
    /\ evSentCounter <= evWrites
    /\ \A f \in evFlows : f.pc = "store" => f.tmp < evWrites
    /\ evWg = Cardinality(evFlows)
    /\ evWrites <= evRecvCounter
    /\ evReported >= 0 =>
          /\ evPc = "done" /\ evFlows = {} /\ evWg = 0
          /\ evReported = evSentCounter
          /\ evReported <= evWrites
          /\ (evWrites > 0 => evReported >= 1)

(* C39 witness: all goroutines have returned after three successful writes  *)
(* and the counter logged is smaller: an update was lost                    *)
C39_Witness ==
    /\ evReported >= 0 /\ evPc = "done"
    /\ evWrites = 3
    /\ evReported < evWrites

(* ---- the client ---- *)

RECURSIVE SumOver(_, _)
SumOver(f, S) ==
    IF S = {} THEN 0
    ELSE LET x == CHOOSE y \in S : TRUE IN f[x] + SumOver(f, S \ {x})

(* a datagram of full length that carries the id i *)
IsReplyFor(b, i) == Len(b) >= ReplySize /\ Uint32LE(b) = i

(* replies for i that were delivered and wait to be looked up or deleted *)
PendingReplies(i) ==
    Cardinality({k \in 1..Len(readChan) : IsReplyFor(readChan[k], i)})
    + (IF rcvPc = "forward" /\ IsReplyFor(rcvBuf, i) THEN 1 ELSE 0)
    + (IF crPc \in {"rlock", "read", "lock", "delete"} /\ crId = i THEN 1 ELSE 0)

(* the id i is on its way from sendMessages into the set *)
OnWayToSet(i) ==
    \/ sendPc = "record" /\ messgCounter = i
    \/ \E k \in 1..Len(clWriteChan) : clWriteChan[k] = i
    \/ cwPc \in {"lock", "insert"} /\ cwId = i

(* C14: for every id (each is sent once) at most one reply is counted as    *)
(* matched; every reply processed is counted once, as matched or as         *)
(* unmatched, so all further replies for the id are unmatched; an id that   *)
(* was matched is not in the set again.                                     *)
C14_MatchedAtMostOnce ==
    /\ \A i \in Ids : matchCount[i] <= 1
    /\ \A i \in Ids : arrived[i] = PendingReplies(i) + matchCount[i] + missCount[i]
    /\ \A i \in Ids : i \in set => matchCount[i] = 0
    /\ clRecvCounter = SumOver(matchCount, Ids)
    /\ clNotSentCounter = SumOver(missCount, Ids)

(* C14 witness: an id was matched and a further reply for it, processed     *)
(* afterwards, was counted as unmatched                                     *)
C14_Witness ==
    \E i \in Ids :
        /\ matchCount[i] = 1 /\ missCount[i] >= 1
        /\ i \notin earlyIds

(* C15 as stated: an id is in the set if and only if its datagram has been  *)
(* written and no reply has been matched against it.                        *)
C15_InSetIffSentUnmatched ==
    \A i \in Ids : i \in set <=> (i \in Written /\ matchCount[i] = 0)

(* C15 amended: an id in the set has been sent and not matched; an id that  *)
(* has been sent and not matched is in the set or still on its way to it    *)
(* (held by sendMessages, on the channel, or held by countWritten).         *)
C15_InSetOnlyIfSentUnmatched ==
    \A i \in Ids :
        /\ i \in set => i \in Written /\ matchCount[i] = 0 /\ ~OnWayToSet(i)
        /\ i \in Written /\ matchCount[i] = 0 => i \in set \/ OnWayToSet(i)
        /\ OnWayToSet(i) => i \in Written /\ matchCount[i] = 0

(* C15 witness: a reply was looked up while its id was still waiting for    *)
(* the lock in countWritten                                                 *)
C15_Witness ==
    /\ cwPc = "lock" /\ cwId \notin set
    /\ missCount[cwId] = 1 /\ cwId \in earlyIds

(* the flows that are between acquiring setMutex and releasing it *)
Inserting == cwPc = "insert"
Looking == crPc = "read"
Deleting == crPc = "delete"

(* C16: the map is read only under the shared lock and changed only under   *)
(* the exclusive lock: an insert or a delete in progress excludes every     *)
(* access by the other flow, and the mutex is free when no access is in     *)
(* progress.                                                                *)
C16_MapAccessUnderMutex ==
    /\ [](/\ (Inserting => setMutex = [writer |-> "cw", readers |-> {}])
          /\ (Deleting => setMutex = [writer |-> "cr", readers |-> {}])
          /\ (Looking => setMutex = [writer |-> "none", readers |-> {"cr"}])
          /\ ~(Inserting /\ (Looking \/ Deleting))
          /\ (~Inserting /\ ~Looking /\ ~Deleting => setMutex = Unlocked))
    /\ [][set' # set => setMutex.writer # "none" /\ setMutex'.writer = "none"]_vars

(* C16 witness: countWritten waits for the exclusive lock while             *)
(* countWrittenRecv holds the shared lock for its lookup                    *)
C16_Witness ==
    /\ cwPc = "lock" /\ Looking
    /\ ~ENABLED CwLock

(* C17: for a received datagram that carries an id, countWrittenRecv either *)
(* finds the id, and then removes it and adds one to the matched counter    *)
(* only, or does not find it, and then adds one to the unmatched counter    *)
(* and leaves the set and the matched counter alone; no other step changes  *)
(* a counter or removes an id.                                              *)
C17_RecordReceived ==
    [][ /\ (crPc = "read" /\ crPc' = "select" =>
              /\ crId \notin set /\ set' = set
              /\ clNotSentCounter' = clNotSentCounter + 1
              /\ clRecvCounter' = clRecvCounter)
        /\ (crPc = "read" /\ crPc' = "lock" =>
              /\ crId \in set /\ set' = set
              /\ clNotSentCounter' = clNotSentCounter
              /\ clRecvCounter' = clRecvCounter)
        /\ (crPc = "delete" /\ crPc' = "select" =>
              /\ crId \in set /\ set' = set \ {crId}
              /\ clRecvCounter' = clRecvCounter + 1
              /\ clNotSentCounter' = clNotSentCounter)
        /\ (crPc \notin {"read", "delete"} \/ crPc' = crPc =>
              /\ set \subseteq set'
              /\ clRecvCounter' = clRecvCounter
              /\ clNotSentCounter' = clNotSentCounter)
        /\ (crPc = "read" => crPc' \in {"read", "select", "lock"})
        /\ (crPc = "lock" => crPc' \in {"lock", "delete"})
        /\ (crPc = "delete" => crPc' \in {"delete", "select"})
      ]_vars

(* C17 witness: one reply was matched and one was not *)
C17_Witness ==
    /\ clRecvCounter = 1 /\ clNotSentCounter = 1
    /\ crPc = "select"

(* every id was sent and the reply to each was delivered, once, before the  *)
(* deadline, and the client has terminated                                  *)
AllRepliedAndDone ==
    /\ faithful
    /\ clMainPc = "done"
    /\ messgCounter = MaxSend
    /\ \A i \in Ids : arrived[i] = 1

(* the replies are 108 bytes: the 100 bytes sent and the FNV-1a hash of     *)
(* those bytes                                                              *)
RepliesCarryOwnHash ==
    \A i \in Ids :
        /\ Len(ReplyOf[i]) = ReplySize
        /\ SubSeq(ReplyOf[i], 1, MessgSize) = ClientMessage(i)
        /\ SubSeq(ReplyOf[i], MessgSize + 1, ReplySize)
              = PutUint64BE(FNV1a64(SubSeq(ReplyOf[i], 1, MessgSize)))

C19_TimeoutTerminates ==
    /\ (deadline ~> (clMainPc = "done" \/ ~ClRunning))
    /\ [](clMainPc = "done" =>
            /\ sendPc = "done" /\ rcvPc = "done" /\ cwPc = "done" /\ crPc = "done"
            /\ clWriteClosed /\ clWriteChan = <<>>
            /\ readClosed /\ readChan = <<>>
            /\ clSentCounter = Cardinality(Written)
            /\ set = Written)
    /\ [](nArrived = 0 /\ clRecvCounter = 0 /\ clNotSentCounter = 0)
    /\ [](clSentCounter = messgCounter)

(* C19 witness: the client ended with ids sent and nothing received *)
C19_Witness ==
    /\ clMainPc = "done" /\ nArrived = 0
    /\ clSentCounter = MaxSend /\ clRecvCounter = 0
    /\ Cardinality(set) = MaxSend

(* the lookup in progress is for an id that countWritten has not inserted   *)
(* yet                                                                      *)
EarlyLookup == crPc = "read" /\ crId \notin set /\ OnWayToSet(crId)

(* C31: a reply looked up before countWritten has inserted its id adds one  *)
(* to the unmatched counter and changes nothing else: the flow goes back to *)
(* its select with the reply consumed (no second lookup) and the process    *)
(* keeps running.  The id is inserted afterwards and then stays in the set: *)
(* only a further reply for it can take it out, so with no further reply it *)
(* is in the set when the client terminates.                                *)
C31_EarlyReplyOnlyCounted ==
    /\ [][EarlyLookup /\ crPc' # crPc =>
            /\ clNotSentCounter' = clNotSentCounter + 1
            /\ clRecvCounter' = clRecvCounter
            /\ set' = set
            /\ crPc' = "select"
            /\ PendingReplies(crId)' = PendingReplies(crId) - 1
            /\ ClRunning']_vars
    /\ [](\A i \in earlyIds :
            /\ missCount[i] >= 1
            /\ arrived[i] = 1 => matchCount[i] = 0 /\ (i \in set \/ OnWayToSet(i))
            /\ arrived[i] = 1 /\ clMainPc = "done" => i \in set)
    /\ [][\A i \in earlyIds \cap set :
            i \notin set' => crPc = "delete" /\ crId = i /\ arrived[i] >= 2]_vars

(* C31 witness: the client has terminated, the only reply for an id was     *)
(* looked up early and counted as unmatched, and the id is in the set       *)
C31_Witness ==
    /\ clMainPc = "done"
    /\ \E i \in earlyIds : arrived[i] = 1 /\ missCount[i] = 1 /\ i \in set
    /\ clNotSentCounter >= 1

(* the number of places on the way from sendMessages to the set that hold   *)
(* the id i                                                                 *)
OnWayCount(i) ==
    (IF sendPc = "record" /\ messgCounter = i THEN 1 ELSE 0)
    + Cardinality({k \in 1..Len(clWriteChan) : clWriteChan[k] = i})
    + (IF cwPc \in {"lock", "insert"} /\ cwId = i THEN 1 ELSE 0)

(* C33: every id whose datagram was written is at exactly one place: on    *)
(* its way to the set, in the set, or matched (taken out of the set again), *)
(* so it is inserted exactly once.  When the client has terminated (main    *)
(* returned from wg.Wait) nothing is on the way any more: the ids in the    *)
(* set are the sent ids that were not matched, the size of the set is the   *)
(* sent counter minus the matched counter, and matched <= sent.             *)
C33_SetSizeAtExit ==
    /\ \A i \in Ids :
          OnWayCount(i) + (IF i \in set THEN 1 ELSE 0) + matchCount[i]
              = (IF i \in Written THEN 1 ELSE 0)
    /\ clMainPc = "done" =>
          /\ \A i \in Ids : OnWayCount(i) = 0
          /\ clSentCounter = Cardinality(Written)
          /\ set = {i \in Written : matchCount[i] = 0}
          /\ Cardinality(set) = clSentCounter - clRecvCounter
          /\ clRecvCounter <= clSentCounter

(* C33 witness: the client has terminated with two ids sent, one of them    *)
(* matched and the other left in the set                                    *)
C33_Witness ==
    /\ clMainPc = "done"
    /\ clSentCounter = 2 /\ clRecvCounter = 1
    /\ Cardinality(set) = 1

(* C36: the ids sendMessages sends on writeOut are 0, 1, 2, ... in this     *)
(* order, without gap or repeat, one for each datagram written (the id of   *)
(* the last datagram may still wait for room on the channel); the sent      *)
(* counter is never more than the number of ids handed over, is one less    *)
(* only between the channel send and the increment, and is equal once       *)
(* sendMessages has ended.                                                  *)
C36_IdsInOrder ==
    /\ \A k \in 1..Len(handed) : handed[k] = k - 1
    /\ Len(handed) = Cardinality(Written) - (IF sendPc = "record" THEN 1 ELSE 0)
    /\ clSentCounter <= Len(handed)
    /\ Len(handed) - clSentCounter = (IF sendPc = "count" THEN 1 ELSE 0)
    /\ sendPc = "done" => clSentCounter = Len(handed)

(* C36 witness: sendMessages has ended after handing over the ids 0 and 1   *)
C36_Witness ==
    /\ sendPc = "done"
    /\ handed = << 0, 1 >>
    /\ clSentCounter = 2

(* countWrittenRecv takes a datagram of fewer than 108 bytes from recvIn *)
TakesShort ==
    /\ crPc = "select" /\ readChan # <<>>
    /\ Len(Head(readChan)) < 108
    /\ readChan' = Tail(readChan)

(* C35: when countWrittenRecv takes a datagram shorter than 108 bytes it    *)
(* changes neither counter and not the set, and it is back at its select    *)
(* without a lookup: the id in the first four bytes of the datagram, if it  *)
(* is in the set, is still there.                                           *)
C35_ShortDatagramIgnored ==
    [][TakesShort =>
          /\ clRecvCounter' = clRecvCounter
          /\ clNotSentCounter' = clNotSentCounter
          /\ set' = set
          /\ (Uint32LE(Head(readChan)) \in set => Uint32LE(Head(readChan)) \in set')
          /\ crPc' = "select"
          /\ matchCount' = matchCount /\ missCount' = missCount]_vars

(* C35 witness: the only datagram delivered was a bare echo of 100 bytes    *)
(* for a recorded id; it has been taken and dropped, the counters are 0 and *)
(* the id is in the set                                                     *)
C35_Witness ==
    /\ nArrived = 1 /\ \A i \in Ids : arrived[i] = 0
    /\ rcvPc # "forward" /\ readChan = <<>> /\ crPc = "select"
    /\ clRecvCounter = 0 /\ clNotSentCounter = 0
    /\ 0 \in set

====
